---- MODULE Spec2Model ----
(***************************************************************************)
(* Model of tableau-utilities' datasource reconciliation:                  *)
(*   - Datasource.enforce_column and the list-backed sections it mutates   *)
(*     (src/tableau_utilities/tableau_file/tableau_file.py),               *)
(*   - TableauDatasourceTasks.execute (planning) and                       *)
(*     TableauDatasourceUpdate.execute (applying) of the Airflow example   *)
(*     (src/airflow_example/dags/tableau_datasource_update/                *)
(*      tableau_datasource_update.py).                                     *)
(* Strings the code slices or formats (column names, remote names, parent  *)
(* names, mapping values) are sequences of one-character strings, so that  *)
(* name[1:-1] and f'{parent}.[{remote}]' are computed, not assumed.        *)
(* None and the empty string are both the empty sequence: the code only    *)
(* ever tests them for truthiness.                                         *)
(***************************************************************************)
EXTENDS Integers, Sequences, FiniteSets, TLC

VARIABLES
    doc,        \* the Datasource object being planned against / mutated
    cfg,        \* the desired configuration of the datasource (read-only)
    tasks,      \* self.tasks[dsid]: the six task lists of the datasource
    pc,         \* position of the plan / apply cycle of the datasource
    err,        \* the error raised by the last operation ("" when none)
    applied,    \* the kinds of the tasks applied so far in this apply, in order
    passes,     \* number of plan passes (or direct operations) made so far
    live,       \* the document of the artifact published on the platform
    pre,        \* the document as it was when the last operation started
    last,       \* the last operation and its arguments
    run         \* state of TableauDatasourceUpdate.execute over all datasources

vars == <<doc, cfg, tasks, pc, err, applied, passes, live, pre, last, run>>

----------------------------------------------------------------------------
(* Strings *)

NONE == <<>>

\* f'[{s}]'
Br(s) == <<"[">> \o s \o <<"]">>

\* name[1:-1]
Inner(n) == IF Len(n) >= 2 THEN SubSeq(n, 2, Len(n) - 1) ELSE <<>>

\* f'{parent_name}.[{remote_name}]'
MapValue(parent, remote) == parent \o <<".">> \o Br(remote)

ColA == Br(<<"A">>)
ColB == Br(<<"B">>)
ColNames == {ColA, ColB}
RemoteNames == {<<"A">>, <<"B">>}
FolderNames == {<<"F">>, <<"G">>}

\* tds.connection.relation.name and tds.extract.connection.relation.name
RelationName == <<"R">>
ExtractRelationName == <<"E">>

----------------------------------------------------------------------------
(* TableauFileObjects: the keyed list every list-backed section is *)

\* The first of the indices S of a list, 0 when there is none (a lookup by key
\* returns the first element that equals the key, or None)
FirstIndex(S) == IF S = {} THEN 0 ELSE CHOOSE i \in S : \A j \in S : i <= j

RemoveAt(s, i) == SubSeq(s, 1, i - 1) \o SubSeq(s, i + 1, Len(s))

ColumnIndex(columns, name) ==
    FirstIndex({i \in 1..Len(columns) : columns[i].name = name})

FolderIndex(folders, name) ==
    FirstIndex({i \in 1..Len(folders) : folders[i].name = name})

ItemIndex(items, name) ==
    FirstIndex({i \in 1..Len(items) : items[i] = name})

MetadataIndex(records, remote) ==
    FirstIndex({i \in 1..Len(records) : records[i].remote_name = remote})

\* MappingCol equality is equality of the (key, value) pair
InCols(cols, mc) == \E i \in 1..Len(cols) : cols[i] = mc

\* TableauFileObjects.add: fails when the key exists, else appends
ListAdd(s, i, item) ==
    IF i # 0 THEN [v |-> s, err |-> "DuplicateKeyError"]
    ELSE [v |-> Append(s, item), err |-> ""]

\* TableauFileObjects.update: replaces the element with the key, fails when absent
ListUpdate(s, i, item) ==
    IF i = 0 THEN [v |-> s, err |-> "NotFoundError"]
    ELSE [v |-> [s EXCEPT ![i] = item], err |-> ""]

\* TableauFileObjects.delete: removes the element with the key, fails when absent
ListDelete(s, i) ==
    IF i = 0 THEN [v |-> s, err |-> "NotFoundError"]
    ELSE [v |-> RemoveAt(s, i), err |-> ""]

----------------------------------------------------------------------------
(* Datasource.enforce_column *)

\* Lines 238-243: add the column when absent by key, else update it in place
EnforceColumnEntity(columns, column) ==
    LET i == ColumnIndex(columns, column.name)
    IN  IF i = 0 THEN ListAdd(columns, i, column).v
        ELSE ListUpdate(columns, i, column).v

\* enforce_column that never takes the column out of the folder it is in
LeaveCurrentFolder_Never(folders, name, folder_name) == folders

\* Lines 247-251: drop the folder-item from the first folder holding the column,
\* when that folder is not the target folder
LeaveCurrentFolder(folders, name, folder_name) ==
    LET cur == FirstIndex({i \in 1..Len(folders) :
                              ItemIndex(folders[i].folder_item, name) # 0})
    IN  IF cur # 0 /\ folders[cur].name # folder_name
        THEN [folders EXCEPT ![cur].folder_item =
                 RemoveAt(@, ItemIndex(@, name))]
        ELSE folders

\* Lines 252-259: append the folder-item to the named folder, creating the
\* folder (with the item) when it does not exist
JoinFolder(folders, name, folder_name) ==
    LET i == FolderIndex(folders, folder_name)
    IN  IF i # 0 /\ ItemIndex(folders[i].folder_item, name) = 0
        THEN [folders EXCEPT ![i].folder_item = Append(@, name)]
        ELSE IF i = 0
        THEN Append(folders, [name |-> folder_name, folder_item |-> <<name>>])
        ELSE folders

\* Lines 245-262
EnforceFolder(d, name, folder_name) ==
    IF folder_name = NONE THEN d
    ELSE [d EXCEPT
            !.folders = JoinFolder(LeaveCurrentFolder(d.folders, name, folder_name),
                                   name, folder_name),
            !.show_structure = FALSE]

\* Lines 276-286 and 298-308: every entry matching the pair by key or by value
\* is overwritten with the pair; the pair is appended when none matches
UpsertMappingCol(cols, mc) ==
    IF InCols(cols, mc) THEN cols
    ELSE IF \E i \in 1..Len(cols) : cols[i].key = mc.key \/ cols[i].value = mc.value
    THEN [i \in 1..Len(cols) |->
             IF cols[i].key = mc.key \/ cols[i].value = mc.value THEN mc ELSE cols[i]]
    ELSE Append(cols, mc)

\* Lines 269-286 (connection) and 291-308 (extract): set the record's local
\* name and upsert the mapping; fails when the record is absent
EnforceMetadata(records, cols, name, remote_name) ==
    LET i == MetadataIndex(records, remote_name)
    IN  IF i = 0 THEN [records |-> records, cols |-> cols, err |-> "TableauFileError"]
        ELSE [records |-> [records EXCEPT ![i].local_name = name],
              cols |-> UpsertMappingCol(cols,
                          [key |-> name,
                           value |-> MapValue(records[i].parent_name, remote_name)]),
              err |-> ""]

\* enforce_column that leaves the extract's metadata alone
EnforceColumn_ConnectionOnly(d, column, folder_name, remote_name) ==
    LET d1 == [d EXCEPT !.columns = EnforceColumnEntity(d.columns, column)]
        d2 == EnforceFolder(d1, column.name, folder_name)
        c  == EnforceMetadata(d2.md, d2.cols, column.name, remote_name)
        d3 == [d2 EXCEPT !.md = c.records, !.cols = c.cols]
    IN  IF remote_name = NONE \/ column.calculation # NONE THEN [d |-> d2, err |-> ""]
        ELSE IF c.err # "" THEN [d |-> d2, err |-> c.err]
        ELSE [d |-> d3, err |-> ""]

\* enforce_column that enforces the metadata of calculated columns too
EnforceColumn_CalculatedToo(d, column, folder_name, remote_name) ==
    LET d1 == [d EXCEPT !.columns = EnforceColumnEntity(d.columns, column)]
        d2 == EnforceFolder(d1, column.name, folder_name)
        c  == EnforceMetadata(d2.md, d2.cols, column.name, remote_name)
        d3 == [d2 EXCEPT !.md = c.records, !.cols = c.cols]
        e  == EnforceMetadata(d3.emd, d3.ecols, column.name, remote_name)
        d4 == [d3 EXCEPT !.emd = e.records, !.ecols = e.cols]
    IN  IF remote_name = NONE THEN [d |-> d2, err |-> ""]
        ELSE IF c.err # "" THEN [d |-> d2, err |-> c.err]
        ELSE IF ~d3.has_extract THEN [d |-> d3, err |-> ""]
        ELSE IF e.err # "" THEN [d |-> d3, err |-> e.err]
        ELSE [d |-> d4, err |-> ""]

\* Lines 221-308
EnforceColumn(d, column, folder_name, remote_name) ==
    LET d1 == [d EXCEPT !.columns = EnforceColumnEntity(d.columns, column)]
        d2 == EnforceFolder(d1, column.name, folder_name)
        c  == EnforceMetadata(d2.md, d2.cols, column.name, remote_name)
        d3 == [d2 EXCEPT !.md = c.records, !.cols = c.cols]
        e  == EnforceMetadata(d3.emd, d3.ecols, column.name, remote_name)
        d4 == [d3 EXCEPT !.emd = e.records, !.ecols = e.cols]
    IN  IF remote_name = NONE \/ column.calculation # NONE THEN [d |-> d2, err |-> ""]
        ELSE IF c.err # "" THEN [d |-> d2, err |-> c.err]
        ELSE IF ~d3.has_extract THEN [d |-> d3, err |-> ""]
        ELSE IF e.err # "" THEN [d |-> d3, err |-> e.err]
        ELSE [d |-> d4, err |-> ""]

\* Lines 331-337: the names of the folders that hold no folder-item, in order
RECURSIVE EmptyFolderList(_)
EmptyFolderList(folders) ==
    IF folders = <<>> THEN <<>>
    ELSE (IF Len(Head(folders).folder_item) = 0 THEN <<Head(folders).name>> ELSE <<>>)
         \o EmptyFolderList(Tail(folders))

\* Lines 340-341: folder.delete(name) for each of the names
RECURSIVE DeleteFolders(_, _)
DeleteFolders(folders, names) ==
    IF names = <<>> THEN [v |-> folders, err |-> ""]
    ELSE LET r == ListDelete(folders, FolderIndex(folders, Head(names)))
         IN  IF r.err # "" THEN r ELSE DeleteFolders(r.v, Tail(names))

\* remove_empty_folders that also drops the folders holding one folder-item
RemoveEmptyFolders_UpToOne(d) ==
    LET few == SelectSeq(d.folders, LAMBDA f : Len(f.folder_item) <= 1)
        names == [i \in 1..Len(few) |-> few[i].name]
        r == DeleteFolders(d.folders, names)
    IN  [d |-> [d EXCEPT !.folders = r.v], err |-> r.err, removed |-> names]

\* Lines 310-343: the document without its empty folders, and the list returned
RemoveEmptyFolders(d) ==
    LET names == EmptyFolderList(d.folders)
        r == DeleteFolders(d.folders, names)
    IN  [d |-> [d EXCEPT !.folders = r.v], err |-> r.err, removed |-> names]

\* Lines 310-343
RECURSIVE DropEmpty(_)
DropEmpty(folders) ==
    IF folders = <<>> THEN <<>>
    ELSE IF Head(folders).folder_item = <<>> THEN DropEmpty(Tail(folders))
    ELSE <<Head(folders)>> \o DropEmpty(Tail(folders))

----------------------------------------------------------------------------
(* TableauDatasourceTasks: planning *)

UPDATE_ACTIONS ==
    <<"add_metadata", "add_column", "modify_column",
      "add_folder", "delete_folder", "update_connection">>

\* Line 309: self.tasks[dsid] = {a: [] for a in UPDATE_ACTIONS}
EmptyTasks == [a \in {UPDATE_ACTIONS[i] : i \in 1..Len(UPDATE_ACTIONS)} |-> <<>>]

\* Lines 110-140
AddTask(t, action, cfg_attrs) == [t EXCEPT ![action] = Append(@, cfg_attrs)]

\* str.lower() on the characters the connection attributes are made of
LowerChar(c) ==
    CASE c = "D" -> "d"
      [] c = "H" -> "h"
      [] c = "U" -> "u"
      [] OTHER -> c

Lower(s) == [i \in 1..Len(s) |-> LowerChar(s[i])]

ConnAttrs ==
    {"class_name", "dbname", "schema", "server", "service", "username", "warehouse"}

\* Lines 96-108
ExpectedConn ==
    [class_name |-> <<"s">>, dbname |-> <<"d">>, schema |-> <<"p">>,
     server |-> <<"h">>, service |-> <<"r">>, username |-> <<"u">>,
     warehouse |-> <<"w">>]

\* Lines 250-257
ConnectionDiff(conn, expected_attrs) ==
    \/ expected_attrs.server # conn.caption
    \/ \E a \in ConnAttrs :
          /\ conn.attrs[a] # NONE
          /\ Lower(conn.attrs[a]) # Lower(expected_attrs[a])

\* Lines 235-262
CompareConnection(t, conn, expected_attrs) ==
    IF ConnectionDiff(conn, expected_attrs)
    THEN AddTask(t, "update_connection", expected_attrs)
    ELSE t

\* A comparison that queues a delete_folder for every live folder
RECURSIVE DeleteFolderTasks_All(_, _, _)
DeleteFolderTasks_All(t, tds_folders, cfg_folders) ==
    IF tds_folders = <<>> THEN t
    ELSE DeleteFolderTasks_All(
            AddTask(t, "delete_folder", [name |-> Head(tds_folders).name]),
            Tail(tds_folders), cfg_folders)

\* Lines 275-277: one delete_folder per live folder the config does not name
RECURSIVE DeleteFolderTasks(_, _, _)
DeleteFolderTasks(t, tds_folders, cfg_folders) ==
    IF tds_folders = <<>> THEN t
    ELSE DeleteFolderTasks(
            IF ItemIndex(cfg_folders, Head(tds_folders).name) = 0
            THEN AddTask(t, "delete_folder", [name |-> Head(tds_folders).name])
            ELSE t,
            Tail(tds_folders), cfg_folders)

\* Lines 278-280: one add_folder per config folder the datasource does not have
RECURSIVE AddFolderTasks(_, _, _)
AddFolderTasks(t, tds_folders, cfg_folders) ==
    IF cfg_folders = <<>> THEN t
    ELSE AddFolderTasks(
            IF FolderIndex(tds_folders, Head(cfg_folders)) = 0
            THEN AddTask(t, "add_folder", [name |-> Head(cfg_folders)])
            ELSE t,
            tds_folders, Tail(cfg_folders))

\* Lines 264-280
CompareFolders(t, tds_folders, cfg_folders) ==
    AddFolderTasks(DeleteFolderTasks(t, tds_folders, cfg_folders),
                   tds_folders, cfg_folders)

\* Metadata attributes whose ordinal ignores the tasks already queued
MetadataAttrs_LiveCountOnly(t, d, column, md_local) ==
    [conn |->
        [remote_name |-> column.remote_name,
         local_name |-> IF md_local THEN column.name ELSE NONE,
         parent_name |-> Br(RelationName),
         ordinal |-> Len(d.md),
         family |-> NONE],
     extract |->
        [remote_name |-> column.remote_name,
         local_name |-> IF md_local THEN column.name ELSE NONE,
         parent_name |-> Br(ExtractRelationName),
         ordinal |-> Len(d.emd),
         family |-> RelationName]]

\* Lines 181-195: the attributes of the two MetadataRecords to add; column.metadata
\* carries the remote name and, when the configuration gives one, the local name
MetadataAttrs(t, d, column, md_local) ==
    [conn |->
        [remote_name |-> column.remote_name,
         local_name |-> IF md_local THEN column.name ELSE NONE,
         parent_name |-> Br(RelationName),
         ordinal |-> Len(d.md) + Len(t["add_metadata"]),
         family |-> NONE],
     extract |->
        [remote_name |-> column.remote_name,
         local_name |-> IF md_local THEN column.name ELSE NONE,
         parent_name |-> Br(ExtractRelationName),
         ordinal |-> Len(d.emd) + Len(t["add_metadata"]),
         family |-> RelationName]]

\* Lines 169-198: [needed |-> metadata update needed, t |-> the tasks]
CompareColumnMetadata(t, d, column, md_local) ==
    LET i == MetadataIndex(d.md, column.remote_name)
    IN  IF column.remote_name = NONE THEN [needed |-> FALSE, t |-> t]
        ELSE IF i # 0 /\ d.md[i].local_name # column.name
        THEN [needed |-> TRUE, t |-> t]
        ELSE IF i = 0
        THEN [needed |-> FALSE,
              t |-> AddTask(t, "add_metadata", MetadataAttrs(t, d, column, md_local))]
        ELSE [needed |-> FALSE, t |-> t]

\* Lines 213-233
CompareColumnMapping(d, column) ==
    LET i == IF column.remote_name # NONE
             THEN MetadataIndex(d.md, column.remote_name) ELSE 0
        mapping_not_required ==
            \/ i = 0
            \/ (d.cols = <<>> /\ Inner(column.name) = column.remote_name)
    IN  ~(\/ mapping_not_required
          \/ InCols(d.cols, [key |-> column.name,
                             value |-> MapValue(d.md[i].parent_name,
                                                column.remote_name)]))

\* The attributes __get_column_diffs compares: cfg_column.dict() without
\* folder_name and remote_name
ColumnAttrs == {"name", "caption", "calculation"}

ColumnOf(cfg_attrs) == [a \in ColumnAttrs |-> cfg_attrs[a]]

\* Lines 142-167: the attributes whose live value differs from the config's
GetColumnDiffs(columns, column) ==
    LET i == ColumnIndex(columns, column.name)
    IN  IF i = 0 THEN {}
        ELSE {a \in ColumnAttrs : columns[i][a] # column[a]}

\* Lines 334-335
NotInFolder(folders, column) ==
    LET i == FolderIndex(folders, column.folder_name)
    IN  i = 0 \/ ItemIndex(folders[i].folder_item, column.name) = 0

\* Lines 326-351, one pass of the loop body
CompareColumn(t, d, column, md_local) ==
    LET m == CompareColumnMetadata(t, d, column, md_local)
        column_needs_mapping == CompareColumnMapping(d, column)
        column_diffs == GetColumnDiffs(d.columns, column)
        not_in_folder == NotInFolder(d.folders, column)
    IN  IF ColumnIndex(d.columns, column.name) = 0
        THEN AddTask(m.t, "add_column", column)
        ELSE IF \/ column_diffs # {}
                \/ not_in_folder
                \/ m.needed
                \/ column_needs_mapping
        THEN AddTask(m.t, "modify_column", column)
        ELSE m.t

RECURSIVE CompareColumns(_, _, _, _)
CompareColumns(t, d, columns, md_local) ==
    IF columns = <<>> THEN t
    ELSE CompareColumns(CompareColumn(t, d, Head(columns), md_local),
                        d, Tail(columns), md_local)

\* Lines 202-211: the remote names of the live metadata records that no config
\* column declares, in record order: each is logged as a warning
UnmappedRemoteFields(d, c) ==
    SelectSeq([i \in 1..Len(d.md) |-> d.md[i].remote_name],
              LAMBDA remote : \A k \in 1..Len(c.columns) :
                                 c.columns[k].remote_name # remote)

\* An audit that drops the records it warns about from the document
CompareTdsMetadata_DropsUnmapped(st, c) ==
    [st EXCEPT !.warnings = UnmappedRemoteFields(st.d, c),
               !.d.md = SelectSeq(@, LAMBDA m : \E k \in 1..Len(c.columns) :
                                      c.columns[k].remote_name = m.remote_name)]

\* Lines 200-211: st is [d |-> the Datasource, t |-> the tasks, warnings |->
\* the warnings logged]; the audit logs and does nothing else
CompareTdsMetadata(st, c) ==
    [st EXCEPT !.warnings = UnmappedRemoteFields(st.d, c)]

\* Lines 309-351: the comparisons of one datasource, on the Datasource that
\* was opened from the download
PlanPass(d, c) ==
    LET st == CompareTdsMetadata([d |-> d, t |-> EmptyTasks, warnings |-> <<>>], c)
    IN  [st EXCEPT !.t =
            CompareColumns(
                CompareFolders(
                    CompareConnection(st.t, st.d.conn, c.conn),
                    st.d.folders, c.folders),
                st.d, c.columns, c.md_local)]

\* Lines 308-351: the tasks of one datasource
PlanTasks(d, c) == PlanPass(d, c).t

----------------------------------------------------------------------------
(* TableauDatasourceUpdate: applying *)

\* An order that adds the columns before the folders
APPLY_ORDER_ColumnsFirst ==
    <<"add_metadata", "update_connection", "add_column",
      "add_folder", "modify_column", "delete_folder">>

\* Lines 445-450: the order in which execute calls __do_action
APPLY_ORDER ==
    <<"add_metadata", "update_connection", "add_folder",
      "add_column", "modify_column", "delete_folder">>

\* Lines 395-398
DoAddMetadata(d, attrs) ==
    LET c == ListAdd(d.md, MetadataIndex(d.md, attrs.conn.remote_name), attrs.conn)
        e == ListAdd(d.emd, MetadataIndex(d.emd, attrs.extract.remote_name),
                     attrs.extract)
    IN  IF c.err # "" THEN [d |-> d, err |-> c.err]
        ELSE IF ~d.has_extract THEN [d |-> [d EXCEPT !.md = c.v], err |-> ""]
        ELSE [d |-> [d EXCEPT !.md = c.v, !.emd = e.v], err |-> e.err]

\* Lines 399-402
DoColumn(d, attrs) ==
    EnforceColumn(d, ColumnOf(attrs), attrs.folder_name, attrs.remote_name)

\* Lines 403-404
DoAddFolder(d, attrs) ==
    LET r == ListAdd(d.folders, FolderIndex(d.folders, attrs.name),
                     [name |-> attrs.name, folder_item |-> <<>>])
    IN  [d |-> [d EXCEPT !.folders = r.v], err |-> r.err]

\* Lines 405-406
DoDeleteFolder(d, attrs) ==
    LET r == ListDelete(d.folders, FolderIndex(d.folders, attrs.name))
    IN  [d |-> [d EXCEPT !.folders = r.v], err |-> r.err]

\* The sub-connections of the connection: the first one, and the others when
\* the document has more than one
Others(conn) == IF "others" \in DOMAIN conn THEN conn.others ELSE <<>>

SubConnections(conn) == <<conn.attrs>> \o Others(conn)

\* Line 411: tds.connection[class_name], the first sub-connection of the class
ConnectionIndex(conn, class_name) ==
    FirstIndex({i \in 1..Len(SubConnections(conn)) :
                   SubConnections(conn)[i].class_name = class_name})

\* Lines 412-413: setattr for every attribute of the task
SetAttrs(connection, attrs) ==
    [a \in DOMAIN connection \cup DOMAIN attrs |->
        IF a \in DOMAIN attrs THEN attrs[a] ELSE connection[a]]

\* update_connection that replaces the sub-connection by the task's attributes
DoUpdateConnection_Replace(d, attrs) ==
    [d |-> [d EXCEPT !.conn.attrs = attrs], err |-> ""]

\* Lines 407-414: only the attributes the task names are overwritten, on the
\* sub-connection of the task's class
DoUpdateConnection(d, attrs) ==
    LET i == ConnectionIndex(d.conn, attrs.class_name)
    IN  IF i = 0 THEN [d |-> d, err |-> "AttributeError"]
        ELSE IF i = 1
        THEN [d |-> [d EXCEPT !.conn.attrs = SetAttrs(@, attrs)], err |-> ""]
        ELSE [d |-> [d EXCEPT !.conn.others[i - 1] = SetAttrs(@, attrs)],
              err |-> ""]

\* Lines 393-414, the body of the loop for one task
DoTask(d, action, attrs) ==
    CASE action = "add_metadata" -> DoAddMetadata(d, attrs)
      [] action \in {"modify_column", "add_column"} -> DoColumn(d, attrs)
      [] action = "add_folder" -> DoAddFolder(d, attrs)
      [] action = "delete_folder" -> DoDeleteFolder(d, attrs)
      [] action = "update_connection" -> DoUpdateConnection(d, attrs)

\* Lines 385-414: the tasks of one kind, in order, up to the first that raises;
\* n is the number of tasks applied
RECURSIVE DoActionFrom(_, _, _, _)
DoActionFrom(d, action, todo, n) ==
    IF todo = <<>> THEN [d |-> d, err |-> "", n |-> n]
    ELSE LET r == DoTask(d, action, Head(todo))
         IN  IF r.err # "" THEN [d |-> r.d, err |-> r.err, n |-> n]
             ELSE DoActionFrom(r.d, action, Tail(todo), n + 1)

DoAction(t, d, action) == DoActionFrom(d, action, t[action], 0)

\* Lines 372-382
HasTasksToDo(t) == \E a \in DOMAIN t : t[a] # <<>>


----------------------------------------------------------------------------
(* Inputs: documents and configurations *)

MaxPasses == 3

Cap == <<"c">>
OldCap == <<"o">>
Calc == <<"1">>
FolderF == <<"F">>
FolderG == <<"G">>

\* The live connection as published: converged up to letter case, or with
\* another database
ConnVariants ==
    {[caption |-> ExpectedConn.server,
      attrs |-> [ExpectedConn EXCEPT !.dbname = db]] : db \in {<<"D">>, <<"x">>}}

MdRecord(remote, local, parent) ==
    [remote_name |-> remote, local_name |-> local, parent_name |-> parent,
     ordinal |-> 0, family |-> NONE]

\* A datasource with no columns, folders or metadata yet
EmptyDoc(ext, conn) ==
    [columns |-> <<>>, folders |-> <<>>, md |-> <<>>, emd |-> <<>>,
     cols |-> <<>>, ecols |-> <<>>, has_extract |-> ext,
     show_structure |-> TRUE, conn |-> conn]

\* A datasource that was edited by hand: [A] (with an old caption) sits in
\* folder F and [B] in folder G; its one metadata record (for remote field A,
\* mapped to [A], or for a remote field C no column uses) is in lockstep
\* between the connection and the extract
LegacyDoc(ext, remote) ==
    LET local == IF remote = <<"A">> THEN ColA ELSE NONE
    IN  [EmptyDoc(ext, CHOOSE c \in ConnVariants : c.attrs.dbname = <<"D">>) EXCEPT
            !.columns = <<[name |-> ColA, caption |-> OldCap, calculation |-> NONE],
                          [name |-> ColB, caption |-> Cap, calculation |-> NONE]>>,
            !.folders = <<[name |-> FolderF, folder_item |-> <<ColA>>],
                          [name |-> FolderG, folder_item |-> <<ColB>>]>>,
            !.md = <<MdRecord(remote, local, Br(RelationName))>>,
            !.emd = IF ext
                    THEN <<[MdRecord(remote, local, Br(ExtractRelationName))
                               EXCEPT !.family = RelationName]>>
                    ELSE <<>>]

SeedDocs ==
    {EmptyDoc(ext, conn) : ext \in BOOLEAN, conn \in ConnVariants}
    \cup {LegacyDoc(ext, remote) : ext \in BOOLEAN, remote \in {<<"A">>, <<"C">>}}

CfgColumn(name, calculation, folder_name, remote_name) ==
    [name |-> name, caption |-> Cap, calculation |-> calculation,
     folder_name |-> folder_name, remote_name |-> remote_name]

CfgColumnsA ==
    {CfgColumn(ColA, k, f, r) :
        k \in {NONE, Calc}, f \in {NONE, FolderF}, r \in {NONE} \cup RemoteNames}

CfgColumnsB ==
    {CfgColumn(ColB, k, f, r) :
        k \in {NONE, Calc}, f \in {NONE, FolderF, FolderG},
        r \in {NONE} \cup RemoteNames}

CfgColumnLists ==
    {<<>>} \cup {<<a>> : a \in CfgColumnsA} \cup {<<b>> : b \in CfgColumnsB}
    \cup {<<a, b>> : a \in CfgColumnsA, b \in CfgColumnsB}

CfgFolderLists == {<<>>, <<FolderF>>, <<FolderF, FolderG>>}

Configs ==
    {[columns |-> cs, folders |-> fs, conn |-> ExpectedConn, md_local |-> ml] :
        cs \in CfgColumnLists, fs \in CfgFolderLists, ml \in BOOLEAN}

NoRun == [phase |-> "none"]
NoOp == [op |-> "none"]

----------------------------------------------------------------------------
(* One datasource through repeated plan / apply cycles *)

Init ==
    /\ cfg \in Configs
    /\ live \in SeedDocs
    /\ doc = live
    /\ pre = live
    /\ tasks = EmptyTasks
    /\ pc = "idle"
    /\ err = ""
    /\ applied = <<>>
    /\ passes = 0
    /\ last = NoOp
    /\ run = NoRun

\* TableauDatasourceTasks.execute for the datasource: download, open, compare
Plan ==
    /\ pc = "idle"
    /\ passes < MaxPasses
    /\ LET r == PlanPass(live, cfg)
       IN  /\ doc' = r.d
           /\ tasks' = r.t
           /\ last' = [op |-> "plan", warnings |-> r.warnings]
    /\ pre' = live
    /\ pc' = "planned"
    /\ passes' = passes + 1
    /\ err' = ""
    /\ applied' = <<>>
    /\ UNCHANGED <<cfg, live, run>>

\* Lines 432-435: nothing to do for the datasource
SkipNoTasks ==
    /\ pc = "planned"
    /\ ~HasTasksToDo(tasks)
    /\ pc' = "idle"
    /\ last' = [op |-> "skip"]
    /\ UNCHANGED <<doc, cfg, tasks, err, applied, passes, live, pre, run>>

\* Lines 439-444: download with the extract and open
Open ==
    /\ pc = "planned"
    /\ HasTasksToDo(tasks)
    /\ doc' = live
    /\ pre' = live
    /\ pc' = APPLY_ORDER[1]
    /\ applied' = <<>>
    /\ last' = [op |-> "open"]
    /\ UNCHANGED <<cfg, tasks, err, passes, live, run>>

KindIndex(kind) == CHOOSE i \in 1..Len(APPLY_ORDER) : APPLY_ORDER[i] = kind

Repeat(x, n) == [i \in 1..n |-> x]

\* One of lines 445-450: __do_action for the kind execute has reached
Step ==
    /\ \E i \in 1..Len(APPLY_ORDER) : pc = APPLY_ORDER[i]
    /\ LET r == DoAction(tasks, doc, pc)
           i == KindIndex(pc)
       IN  /\ doc' = r.d
           /\ pre' = doc
           /\ applied' = applied \o Repeat(pc, r.n)
           /\ err' = r.err
           /\ pc' = IF r.err # "" THEN "failed"
                    ELSE IF i < Len(APPLY_ORDER) THEN APPLY_ORDER[i + 1]
                    ELSE "save"
           /\ last' = [op |-> pc]
    /\ UNCHANGED <<cfg, tasks, passes, live, run>>

\* Line 451
Save ==
    /\ pc = "save"
    /\ pc' = "publish"
    /\ last' = [op |-> "save"]
    /\ UNCHANGED <<doc, cfg, tasks, err, applied, passes, live, pre, run>>

\* Lines 453-456
Publish ==
    /\ pc = "publish"
    /\ live' = doc
    /\ pc' = "idle"
    /\ last' = [op |-> "publish"]
    /\ UNCHANGED <<doc, cfg, tasks, err, applied, passes, pre, run>>

\* Lines 457-463: the error is collected, the mutated document is dropped
Abort ==
    /\ pc = "failed"
    /\ doc' = live
    /\ pc' = "idle"
    /\ last' = [op |-> "abort"]
    /\ UNCHANGED <<cfg, tasks, err, applied, passes, live, pre, run>>

Next == Plan \/ SkipNoTasks \/ Open \/ Step \/ Save \/ Publish \/ Abort

Spec == Init /\ [][Next]_vars


----------------------------------------------------------------------------
(* Idempotence and convergence of planning *)

\* The add_metadata tasks of t that carry the remote name
MetadataTasksFor(t, remote) ==
    {i \in 1..Len(t["add_metadata"]) : t["add_metadata"][i].conn.remote_name = remote}

\* The add_column / modify_column tasks of t for the column name
ColumnTasksFor(t, name) ==
    {<<"add_column", i>> :
        i \in {j \in 1..Len(t["add_column"]) : t["add_column"][j].name = name}}
    \cup {<<"modify_column", i>> :
        i \in {j \in 1..Len(t["modify_column"]) : t["modify_column"][j].name = name}}

CfgColumnSet(c) == {c.columns[i] : i \in 1..Len(c.columns)}

ColumnMatches(d, column) ==
    /\ ColumnIndex(d.columns, column.name) # 0
    /\ GetColumnDiffs(d.columns, column) = {}

InDeclaredFolder(d, column) ==
    \E i \in 1..Len(d.folders) :
        /\ d.folders[i].name = column.folder_name
        /\ \E j \in 1..Len(d.folders[i].folder_item) :
              d.folders[i].folder_item[j] = column.name

MetadataSet(d, column) ==
    \E i \in 1..Len(d.md) :
        /\ d.md[i].remote_name = column.remote_name
        /\ d.md[i].local_name = column.name
        /\ InCols(d.cols, [key |-> column.name,
                           value |-> MapValue(d.md[i].parent_name, column.remote_name)])

\* The document is converged to the configuration
Converged(d, c) ==
    /\ \A column \in CfgColumnSet(c) :
          /\ ColumnMatches(d, column)
          /\ column.folder_name # NONE => InDeclaredFolder(d, column)
          /\ column.remote_name # NONE => MetadataSet(d, column)
    /\ {d.folders[i].name : i \in 1..Len(d.folders)}
          = {c.folders[i] : i \in 1..Len(c.folders)}
    /\ d.conn.caption = c.conn.server
    /\ d.conn.attrs = c.conn

\* C1: planning a document that is already converged to the configuration
\* yields six empty task lists, also when a desired column declares no folder.
C1_PlanOfConvergedIsEmpty ==
    (pc = "planned" /\ Converged(doc, cfg)) => tasks = EmptyTasks

\* C1 restricted to configurations whose columns all declare a folder
C1_PlanOfConvergedIsEmptyWithFolders ==
    (/\ pc = "planned"
     /\ Converged(doc, cfg)
     /\ \A column \in CfgColumnSet(cfg) : column.folder_name # NONE)
    => tasks = EmptyTasks

C1_WitnessConvergedWithFolders ==
    /\ pc = "planned"
    /\ Converged(doc, cfg)
    /\ Len(cfg.columns) = 2
    /\ \A column \in CfgColumnSet(cfg) :
          column.folder_name # NONE /\ column.remote_name # NONE

\* C2: when the metadata record of a desired column's remote name was missing
\* and Apply has processed the add_metadata task and the column's task, the
\* next Plan emits no add_metadata, add_column or modify_column task for it.
C2_PlanAfterApplyHasNoTaskForColumn ==
    pc = "publish" =>
        \A column \in CfgColumnSet(cfg) :
            (/\ column.remote_name # NONE
             /\ MetadataIndex(live.md, column.remote_name) = 0
             /\ ColumnTasksFor(tasks, column.name) # {})
            => /\ MetadataTasksFor(PlanTasks(doc, cfg), column.remote_name) = {}
               /\ ColumnTasksFor(PlanTasks(doc, cfg), column.name) = {}

\* C2 restricted to columns that are no calculation and declare a folder the
\* configuration lists
C2_PlanAfterApplyPlainFolderedColumn ==
    pc = "publish" =>
        \A column \in CfgColumnSet(cfg) :
            (/\ column.remote_name # NONE
             /\ MetadataIndex(live.md, column.remote_name) = 0
             /\ ColumnTasksFor(tasks, column.name) # {}
             /\ column.calculation = NONE
             /\ ItemIndex(cfg.folders, column.folder_name) # 0)
            => /\ MetadataTasksFor(PlanTasks(doc, cfg), column.remote_name) = {}
               /\ ColumnTasksFor(PlanTasks(doc, cfg), column.name) = {}

\* The case of C3: the column is live, equal and in its folder, and its remote
\* name has no metadata record
MissingOnlyMetadata(d, column) ==
    /\ column.remote_name # NONE
    /\ MetadataIndex(d.md, column.remote_name) = 0
    /\ ColumnMatches(d, column)
    /\ InDeclaredFolder(d, column)

DistinctRemoteNames(c) ==
    \A i, j \in 1..Len(c.columns) :
        (i # j /\ c.columns[i].remote_name # NONE)
        => c.columns[i].remote_name # c.columns[j].remote_name

\* C3 as stated: exactly one add_metadata task, with the number of live
\* metadata records as its ordinal, and no column task (here only for
\* configurations whose columns declare pairwise distinct remote names).
C3_OneMetadataTaskAtLiveCount ==
    (pc = "planned" /\ DistinctRemoteNames(cfg)) =>
        \A column \in CfgColumnSet(cfg) :
            MissingOnlyMetadata(doc, column)
            => /\ Cardinality(MetadataTasksFor(tasks, column.remote_name)) = 1
               /\ \A i \in MetadataTasksFor(tasks, column.remote_name) :
                     tasks["add_metadata"][i].conn.ordinal = Len(doc.md)
               /\ ColumnTasksFor(tasks, column.name) = {}

\* C3 (amended): Plan queues one add_metadata task per desired column that
\* declares the remote name, the k-th add_metadata task of the pass (from 0)
\* has the number of live metadata records plus k as its primary ordinal, and
\* the column itself gets neither an add_column nor a modify_column task.
C3_MetadataTaskAtLiveCountPlusQueued ==
    pc = "planned" =>
        \A column \in CfgColumnSet(cfg) :
            MissingOnlyMetadata(doc, column)
            => /\ Cardinality(MetadataTasksFor(tasks, column.remote_name))
                    = Cardinality({o \in CfgColumnSet(cfg) :
                                      o.remote_name = column.remote_name})
               /\ \A i \in MetadataTasksFor(tasks, column.remote_name) :
                     tasks["add_metadata"][i].conn.ordinal = Len(doc.md) + (i - 1)
               /\ ColumnTasksFor(tasks, column.name) = {}

C3_WitnessSecondMetadataTask ==
    /\ pc = "planned"
    /\ Len(tasks["add_metadata"]) = 2
    /\ Len(doc.md) = 1
    /\ \E column \in CfgColumnSet(cfg) :
          /\ MissingOnlyMetadata(doc, column)
          /\ tasks["add_metadata"][2].conn.remote_name = column.remote_name
          /\ tasks["add_metadata"][1].conn.remote_name # column.remote_name


----------------------------------------------------------------------------
(* Order of application *)

\* The order the Applier is specified to follow
KindRank(kind) ==
    CASE kind = "add_metadata" -> 1
      [] kind = "update_connection" -> 2
      [] kind = "add_folder" -> 3
      [] kind = "add_column" -> 4
      [] kind = "modify_column" -> 5
      [] kind = "delete_folder" -> 6

CountOf(s, x) == Cardinality({i \in 1..Len(s) : s[i] = x})

Applying == pc \in DOMAIN EmptyTasks \cup {"save", "publish", "failed"}

\* C4: tasks are applied in the order add_metadata, update_connection,
\* add_folder, add_column, modify_column, delete_folder: a task of a kind is
\* applied only when every task of each earlier kind has been applied, and the
\* document is saved only when every task of all six kinds has been applied.
C4_KindsAppliedInFixedOrder ==
    Applying =>
        /\ \A i, j \in 1..Len(applied) :
              i < j => KindRank(applied[i]) <= KindRank(applied[j])
        /\ \A k, e \in DOMAIN EmptyTasks :
              (CountOf(applied, k) > 0 /\ KindRank(e) < KindRank(k))
              => CountOf(applied, e) = Len(tasks[e])
        /\ pc \in {"save", "publish"} =>
              \A k \in DOMAIN EmptyTasks : CountOf(applied, k) = Len(tasks[k])

C4_WitnessFourKindsApplied ==
    /\ pc = "publish"
    /\ Cardinality({applied[i] : i \in 1..Len(applied)}) >= 4
    /\ \E i \in 1..Len(applied) : applied[i] = "add_folder"
    /\ \E i \in 1..Len(applied) : applied[i] = "add_column"

\* The case of C5: the plan holds an add_folder task for a folder and an
\* add_column task for a column declared to be in that folder
NewFolderWithNewColumn(t, folder_name, name) ==
    /\ \E i \in 1..Len(t["add_folder"]) : t["add_folder"][i].name = folder_name
    /\ \E i \in 1..Len(t["add_column"]) :
          /\ t["add_column"][i].name = name
          /\ t["add_column"][i].folder_name = folder_name

OneFolderHolding(d, folder_name, name) ==
    /\ Cardinality({i \in 1..Len(d.folders) : d.folders[i].name = folder_name}) = 1
    /\ \A i \in 1..Len(d.folders) :
          d.folders[i].name = folder_name
          => CountOf(d.folders[i].folder_item, name) = 1

\* C5: when the plan adds a folder and a new column placed in it, Apply does
\* not fail, and it leaves exactly one folder of that name, holding the column.
C5_ApplyOfNewFolderAndColumnSucceeds ==
    Applying =>
        \A f \in FolderNames, n \in ColNames :
            NewFolderWithNewColumn(tasks, f, n)
            => /\ pc # "failed"
               /\ pc \in {"modify_column", "delete_folder", "save", "publish"}
                     => OneFolderHolding(doc, f, n)

\* C5 for configurations whose columns declare pairwise distinct remote names
C5_ApplyOfNewFolderAndColumnDistinctRemotes ==
    (Applying /\ DistinctRemoteNames(cfg)) =>
        \A f \in FolderNames, n \in ColNames :
            NewFolderWithNewColumn(tasks, f, n)
            => /\ pc # "failed"
               /\ pc \in {"modify_column", "delete_folder", "save", "publish"}
                     => OneFolderHolding(doc, f, n)

\* C5, the folder steps alone: with a new folder and a new column placed in it
\* in the plan, neither the add_folder step nor a column step raises, and from
\* the add_column step on there is exactly one such folder, holding the column
C5_FolderStepsSucceed ==
    Applying =>
        \A f \in FolderNames, n \in ColNames :
            NewFolderWithNewColumn(tasks, f, n)
            => /\ pc = "failed" => last.op = "add_metadata"
               /\ pc \in {"modify_column", "delete_folder", "save", "publish"}
                     => OneFolderHolding(doc, f, n)

C5_WitnessNewFolderHoldsColumn ==
    /\ pc = "publish"
    /\ \E f \in FolderNames, n \in ColNames :
          /\ NewFolderWithNewColumn(tasks, f, n)
          /\ OneFolderHolding(doc, f, n)


----------------------------------------------------------------------------
(* Any sequence of mutations of one document *)

MaxOps == 2

NoCfg == [columns |-> <<>>, folders |-> <<>>, conn |-> ExpectedConn, md_local |-> FALSE]

\* The connection attributes play no part in these operations
SeedDocsOps == {d \in SeedDocs : d.conn.attrs.dbname = <<"D">> /\ Len(d.md) <= 1
                                  /\ \A i \in 1..Len(d.md) : d.md[i].remote_name = <<"A">>}

InitOps ==
    /\ doc \in SeedDocsOps
    /\ live = doc
    /\ pre = doc
    /\ cfg = NoCfg
    /\ tasks = EmptyTasks
    /\ pc = "ops"
    /\ err = ""
    /\ applied = <<>>
    /\ passes = 0
    /\ last = NoOp
    /\ run = NoRun

OpFrame == UNCHANGED <<cfg, tasks, pc, applied, live, run>>

\* tds.enforce_column(Column(**attrs), folder_name, remote_name)
OpEnforceColumn ==
    /\ pc = "ops"
    /\ passes < MaxOps
    /\ \E name \in ColNames, calculation \in {NONE, Calc},
          folder_name \in {NONE} \cup FolderNames,
          remote_name \in {NONE} \cup RemoteNames :
          LET attrs == CfgColumn(name, calculation, folder_name, remote_name)
              r == DoColumn(doc, attrs)
          IN  /\ doc' = r.d
              /\ err' = r.err
              /\ last' = [op |-> "enforce_column", attrs |-> attrs]
    /\ pre' = doc
    /\ passes' = passes + 1
    /\ OpFrame

\* tds.folders_common.add(Folder(name=...))
OpAddFolder ==
    /\ pc = "ops"
    /\ passes < MaxOps
    /\ \E name \in FolderNames :
          LET r == DoAddFolder(doc, [name |-> name])
          IN  /\ doc' = r.d
              /\ err' = r.err
              /\ last' = [op |-> "add_folder", attrs |-> [name |-> name]]
    /\ pre' = doc
    /\ passes' = passes + 1
    /\ OpFrame

\* tds.folders_common.delete(name)
OpDeleteFolder ==
    /\ pc = "ops"
    /\ passes < MaxOps
    /\ \E name \in FolderNames :
          LET r == DoDeleteFolder(doc, [name |-> name])
          IN  /\ doc' = r.d
              /\ err' = r.err
              /\ last' = [op |-> "delete_folder", attrs |-> [name |-> name]]
    /\ pre' = doc
    /\ passes' = passes + 1
    /\ OpFrame

\* The add_metadata task of a column, as planned against the document
OpAddMetadata ==
    /\ pc = "ops"
    /\ passes < MaxOps
    /\ \E name \in ColNames, remote_name \in RemoteNames, md_local \in BOOLEAN :
          LET attrs == MetadataAttrs(EmptyTasks, doc,
                                     CfgColumn(name, NONE, NONE, remote_name),
                                     md_local)
              r == DoAddMetadata(doc, attrs)
          IN  /\ doc' = r.d
              /\ err' = r.err
              /\ last' = [op |-> "add_metadata", attrs |-> attrs]
    /\ pre' = doc
    /\ passes' = passes + 1
    /\ OpFrame

NextOps == OpEnforceColumn \/ OpAddFolder \/ OpDeleteFolder \/ OpAddMetadata

SpecOps == InitOps /\ [][NextOps]_vars

FoldersHolding(d, name) ==
    {i \in 1..Len(d.folders) : CountOf(d.folders[i].folder_item, name) > 0}

\* C6: a column name has a folder-item in at most one folder of the document,
\* and right after enforce_column with a folder name the column's one
\* folder-item is in that folder.
C6_FolderExclusivity ==
    /\ \A name \in ColNames :
          /\ Cardinality(FoldersHolding(doc, name)) <= 1
          /\ \A i \in FoldersHolding(doc, name) :
                CountOf(doc.folders[i].folder_item, name) = 1
    /\ (last.op = "enforce_column" /\ last.attrs.folder_name # NONE)
          => \A i \in 1..Len(doc.folders) :
                (doc.folders[i].name = last.attrs.folder_name)
                <=> i \in FoldersHolding(doc, last.attrs.name)

C6_WitnessMovedBetweenFolders ==
    /\ last.op = "enforce_column"
    /\ last.attrs.folder_name = FolderG
    /\ \E i \in FoldersHolding(pre, last.attrs.name) : pre.folders[i].name = FolderF
    /\ \E i \in FoldersHolding(doc, last.attrs.name) : doc.folders[i].name = FolderG

Lockstep(d) ==
    d.has_extract =>
        /\ \A i \in 1..Len(d.md) : \E j \in 1..Len(d.emd) :
              /\ d.emd[j].remote_name = d.md[i].remote_name
              /\ d.emd[j].local_name = d.md[i].local_name
        /\ \A j \in 1..Len(d.emd) : \E i \in 1..Len(d.md) :
              d.md[i].remote_name = d.emd[j].remote_name

\* C7: on a document with an extract, every metadata record of the connection
\* has a record of the same remote name and the same local name in the
\* extract's connection, after every add_metadata and every enforce_column.
C7_MetadataLockstep == Lockstep(doc)

C7_WitnessLocalNameSetInBoth ==
    /\ last.op = "enforce_column"
    /\ err = ""
    /\ doc.has_extract
    /\ doc.md # pre.md
    /\ \E i \in 1..Len(doc.emd) :
          /\ doc.emd[i].remote_name = last.attrs.remote_name
          /\ doc.emd[i].local_name = last.attrs.name
          /\ pre.emd[i].local_name # last.attrs.name


----------------------------------------------------------------------------
(* TableauDatasourceUpdate.execute over every datasource of the task map *)

NumDs == 3

DsName(k) == <<"n", k>>

\* A task list with something to do
SomeTasks == AddTask(EmptyTasks, "add_folder", [name |-> FolderF])

\* all_tasks, in the order of all_tasks.items(): datasource k has id k
TaskMaps ==
    [1..NumDs -> {[datasource_name |-> DsName(k), tasks |-> t] :
                     k \in 1..NumDs, t \in {EmptyTasks, SomeTasks}}]

NameLists == {{}} \cup {{DsName(k)} : k \in 1..NumDs}

\* Lines 441-456: what execute does inside the try, after creating the
\* download directory: download, open, __do_action for each kind, save, publish
TRY_STEPS == <<"download", "open">> \o APPLY_ORDER \o <<"save", "publish">>

InitRun ==
    /\ \E m \in TaskMaps, ex \in NameLists, nr \in NameLists :
          /\ \A k \in 1..NumDs : m[k].datasource_name = DsName(k)
          /\ run = [all_tasks |-> m, excluded |-> ex, no_refresh |-> nr,
                    i |-> 1, phase |-> "next", errors |-> <<>>, raised |-> {},
                    attempted |-> {}, published |-> {}, dirs |-> {},
                    refreshed |-> <<>>, results |-> <<>>, j |-> 1,
                    outcome |-> "", done |-> <<>>]
    /\ doc = EmptyDoc(FALSE, CHOOSE c \in ConnVariants : TRUE)
    /\ live = doc
    /\ pre = doc
    /\ cfg = NoCfg
    /\ tasks = EmptyTasks
    /\ pc = "run"
    /\ err = ""
    /\ applied = <<>>
    /\ passes = 0
    /\ last = NoOp

RunFrame == UNCHANGED <<doc, cfg, tasks, pc, err, applied, passes, live, pre, last>>

\* Lines 464-467, entered when the loop is over
AfterLoop(r) ==
    IF r.errors # <<>> THEN [r EXCEPT !.phase = "refresh", !.j = 1]
    ELSE [r EXCEPT !.phase = "done", !.outcome = "ok"]

\* A loop that attempts the datasources that have no task too
LoopHead_AttemptNoWork(r) ==
    IF r.i > NumDs THEN AfterLoop(r)
    ELSE IF r.all_tasks[r.i].datasource_name \in r.excluded
    THEN [r EXCEPT !.i = @ + 1]
    ELSE [r EXCEPT !.phase = TRY_STEPS[1],
                   !.attempted = @ \cup {r.i},
                   !.dirs = @ \cup {r.i},
                   !.done = <<>>]

\* Lines 423-439: skip the datasource, or enter the try and create its directory
LoopHead(r) ==
    IF r.i > NumDs THEN AfterLoop(r)
    ELSE IF r.all_tasks[r.i].datasource_name \in r.excluded
    THEN [r EXCEPT !.i = @ + 1]
    ELSE IF ~HasTasksToDo(r.all_tasks[r.i].tasks)
    THEN [r EXCEPT !.i = @ + 1]
    ELSE [r EXCEPT !.phase = TRY_STEPS[1],
                   !.attempted = @ \cup {r.i},
                   !.dirs = @ \cup {r.i},
                   !.done = <<>>]

\* A handler that lets the error end the run
ExceptHandler_Reraise(r) ==
    [r EXCEPT !.errors = Append(@, r.i), !.phase = "done", !.outcome = "raised"]

\* Lines 457-460: the error is logged and collected
ExceptHandler(r) ==
    [r EXCEPT !.errors = Append(@, r.i), !.phase = "finally"]

\* A try whose statements go on after one of them raised
TryStep_GoesOn(r, ok) ==
    LET k == CHOOSE n \in 1..Len(TRY_STEPS) : TRY_STEPS[n] = r.phase
        q == IF ok THEN [r EXCEPT !.done = Append(@, r.phase)]
             ELSE [r EXCEPT !.raised = @ \cup {r.i}, !.errors = Append(@, r.i)]
    IN  IF k < Len(TRY_STEPS) THEN [q EXCEPT !.phase = TRY_STEPS[k + 1]]
        ELSE IF ok THEN [q EXCEPT !.published = @ \cup {r.i}, !.phase = "finally"]
        ELSE [q EXCEPT !.phase = "finally"]

\* One statement of the try: it returns, or raises; done keeps the statements
\* that returned for the datasource
TryStep(r, ok) ==
    LET k == CHOOSE n \in 1..Len(TRY_STEPS) : TRY_STEPS[n] = r.phase
        q == [r EXCEPT !.done = Append(@, r.phase)]
    IN  IF ~ok THEN ExceptHandler([r EXCEPT !.raised = @ \cup {r.i}])
        ELSE IF k < Len(TRY_STEPS) THEN [q EXCEPT !.phase = TRY_STEPS[k + 1]]
        ELSE [q EXCEPT !.published = @ \cup {r.i}, !.phase = "finally"]

\* Lines 461-463
Finally(r) ==
    [r EXCEPT !.dirs = @ \ {r.i}, !.i = @ + 1, !.phase = "next"]

\* A refresh pass that skips no datasource
MarkedNoRefresh_Never(r, k) == FALSE

\* Lines 59-63 of refresh_datasources
MarkedNoRefresh(r, k) == r.all_tasks[k].datasource_name \in r.no_refresh

\* A refresh pass that raises the duplicate condition like any other error
RefreshOne_DuplicateRaises(r, result) ==
    IF r.j > NumDs THEN [r EXCEPT !.phase = "done", !.outcome = "aggregate"]
    ELSE IF MarkedNoRefresh(r, r.j) THEN [r EXCEPT !.j = @ + 1]
    ELSE IF result # "ok"
    THEN [r EXCEPT !.refreshed = Append(@, r.j), !.results = Append(@, result),
                   !.phase = "done", !.outcome = "refresh_error"]
    ELSE [r EXCEPT !.refreshed = Append(@, r.j), !.results = Append(@, result),
                   !.j = @ + 1]

\* Lines 57-74 of refresh_datasources, one pass of the loop; result is what
\* ts.refresh_datasource does: "ok", "duplicate" (Not queuing a duplicate) or
\* "error"; results records what each call did
RefreshOne(r, result) ==
    IF r.j > NumDs THEN [r EXCEPT !.phase = "done", !.outcome = "aggregate"]
    ELSE IF MarkedNoRefresh(r, r.j) THEN [r EXCEPT !.j = @ + 1]
    ELSE IF result = "error"
    THEN [r EXCEPT !.refreshed = Append(@, r.j), !.results = Append(@, result),
                   !.phase = "done", !.outcome = "refresh_error"]
    ELSE [r EXCEPT !.refreshed = Append(@, r.j), !.results = Append(@, result),
                   !.j = @ + 1]

RunLoopHead ==
    /\ run.phase = "next"
    /\ run' = LoopHead(run)
    /\ RunFrame

RunTryStep ==
    /\ \E n \in 1..Len(TRY_STEPS) : TRY_STEPS[n] = run.phase
    /\ \E ok \in BOOLEAN : run' = TryStep(run, ok)
    /\ RunFrame

RunFinally ==
    /\ run.phase = "finally"
    /\ run' = Finally(run)
    /\ RunFrame

RunRefresh ==
    /\ run.phase = "refresh"
    /\ \E result \in {"ok", "duplicate", "error"} : run' = RefreshOne(run, result)
    /\ RunFrame

NextRun == RunLoopHead \/ RunTryStep \/ RunFinally \/ RunRefresh

SpecRun == InitRun /\ [][NextRun]_vars

\* The datasources execute has to attempt
ToAttempt(r) ==
    {k \in 1..NumDs : /\ r.all_tasks[k].datasource_name \notin r.excluded
                      /\ HasTasksToDo(r.all_tasks[k].tasks)}

SeqSet(s) == {s[i] : i \in 1..Len(s)}

\* C8: an error raised for one datasource aborts that datasource only: when the
\* loop is over, every datasource that is not excluded and has tasks was
\* attempted, and each of them whose own steps all succeeded was published.
C8_FailureIsolation ==
    run.phase \in {"refresh", "done"} =>
        /\ run.attempted = ToAttempt(run)
        /\ run.published = ToAttempt(run) \ run.raised

C8_WitnessSecondOfThreeFailed ==
    /\ run.phase = "done"
    /\ {1, 2, 3} \subseteq ToAttempt(run)
    /\ run.raised = {2}
    /\ {1, 3} \subseteq run.published

\* C9: when a datasource's apply step failed the run ends with the aggregate
\* error, which names the failed datasources and no other; when none failed
\* the run ends without error.
C9_AggregateErrorNamesFailed ==
    run.phase = "done" =>
        /\ run.raised # {} => (run.outcome = "aggregate" /\ SeqSet(run.errors) = run.raised)
        /\ run.raised = {} => run.outcome = "ok"

\* C9 for the runs whose refresh pass raised nothing
C9_AggregateErrorUnlessRefreshRaised ==
    (run.phase = "done" /\ run.outcome # "refresh_error") =>
        /\ run.raised # {} => (run.outcome = "aggregate" /\ SeqSet(run.errors) = run.raised)
        /\ run.raised = {} => run.outcome = "ok"

\* The datasources of the task map, in order, without those in `skip`
RECURSIVE IdsFrom(_, _)
IdsFrom(k, skip) ==
    IF k > NumDs THEN <<>>
    ELSE (IF k \in skip THEN <<>> ELSE <<k>>) \o IdsFrom(k + 1, skip)

IsPrefix(s, t) == Len(s) <= Len(t) /\ s = SubSeq(t, 1, Len(s))

\* C10 as stated: the aggregate error is raised after a refresh call for every
\* datasource of the task map; without a collected error there is no refresh.
C10_RefreshOfAllBeforeAggregate ==
    run.phase = "done" =>
        /\ run.outcome = "aggregate" => run.refreshed = IdsFrom(1, {})
        /\ run.errors = <<>> => run.refreshed = <<>>

\* C10 (amended): with a collected error, refresh calls are issued in task-map
\* order for the datasources not marked no-refresh, up to the first call that
\* fails with another error than the duplicate one, which ends the run in
\* place of the aggregate error; the aggregate error is raised only after the
\* call for the last of them; without a collected error there is no refresh.
C10_RefreshOfUnmarkedBeforeAggregate ==
    LET unmarked == IdsFrom(1, {k \in 1..NumDs :
                                   run.all_tasks[k].datasource_name \in run.no_refresh})
    IN  /\ run.phase # "done" => run.outcome = ""
        /\ run.phase \notin {"refresh", "done"} => run.refreshed = <<>>
        /\ IsPrefix(run.refreshed, unmarked)
        /\ run.phase = "done" =>
              /\ run.outcome = "aggregate" =>
                    (run.errors # <<>> /\ run.refreshed = unmarked)
              /\ run.outcome = "refresh_error" =>
                    (run.errors # <<>> /\ run.refreshed # <<>>)
              /\ run.errors = <<>> => (run.refreshed = <<>> /\ run.outcome = "ok")
              /\ run.errors # <<>> => run.outcome \in {"aggregate", "refresh_error"}

C10_WitnessRefreshSkipsMarked ==
    /\ run.phase = "done"
    /\ run.outcome = "aggregate"
    /\ run.no_refresh = {DsName(2)}
    /\ run.refreshed = IdsFrom(1, {2})


\* C11: a refresh call that fails with the duplicate condition raises nothing
\* and the pass goes on with the remaining datasources; a call that fails
\* with any other error ends the pass with that error. So the pass ends with
\* a refresh error exactly when its last call failed with another error, no
\* earlier call did, and a pass that was not ended by one has called every
\* datasource not marked no-refresh, whatever number of calls were duplicates.
C11_DuplicateRefreshIsSuccess ==
    LET n == Len(run.results)
        unmarked == IdsFrom(1, {k \in 1..NumDs :
                                   run.all_tasks[k].datasource_name \in run.no_refresh})
    IN  /\ n = Len(run.refreshed)
        /\ \A p \in 1..(n - 1) : run.results[p] # "error"
        /\ (n > 0 /\ run.results[n] = "error") <=> run.outcome = "refresh_error"
        /\ (n > 0 /\ run.results[n] = "duplicate" /\ run.phase = "refresh") =>
               run.j > run.refreshed[n]
        /\ (run.phase = "done" /\ run.outcome = "aggregate") =>
               run.refreshed = unmarked

C11_WitnessRefreshGoesOnAfterDuplicate ==
    /\ run.phase = "done"
    /\ run.outcome = "aggregate"
    /\ Len(run.results) >= 2
    /\ run.results[1] = "duplicate"
    /\ run.results[Len(run.results)] = "ok"

----------------------------------------------------------------------------
(* TableauDatasourceTasks.execute over every datasource of the config, and
   what the two later tasks of the DAG visit *)

NumCfg == 3

\* Lines 295-299: the config datasources, k-th in config order, with or without
\* a datasource of the server to take its id from
ConfigDatasources ==
    [1..NumCfg -> {[name |-> DsName(k), resolved |-> b] :
                      k \in 1..NumCfg, b \in BOOLEAN}]

\* Lines 315-351: what execute does for a datasource once its entry and its
\* download directory exist
PLAN_STEPS == <<"download", "open", "compare">>

InitPlan ==
    /\ \E c \in ConfigDatasources :
          /\ \A k \in 1..NumCfg : c[k].name = DsName(k)
          /\ run = [datasources |-> c, i |-> 1, phase |-> "next", map |-> <<>>,
                    planned |-> {}, downloaded |-> {}, dirs |-> {}, raised |-> {},
                    touched |-> {}, refreshed |-> {}, outcome |-> ""]
    /\ doc = EmptyDoc(FALSE, CHOOSE c \in ConnVariants : TRUE)
    /\ live = doc
    /\ pre = doc
    /\ cfg = NoCfg
    /\ tasks = EmptyTasks
    /\ pc = "plan"
    /\ err = ""
    /\ applied = <<>>
    /\ passes = 0
    /\ last = NoOp

\* A loop head that does not look at the id
PlanLoopHead_NoIdCheck(r) ==
    IF r.i > NumCfg THEN [r EXCEPT !.phase = "apply", !.i = 1, !.outcome = "returned"]
    ELSE [r EXCEPT !.map = Append(@, r.i),
                   !.dirs = @ \cup {r.i},
                   !.phase = PLAN_STEPS[1]]

\* Lines 301-314 and 353: skip the datasource without an id, or give it its
\* entry of the task map and create its download directory; after the last
\* datasource the task map is returned
PlanLoopHead(r) ==
    IF r.i > NumCfg THEN [r EXCEPT !.phase = "apply", !.i = 1, !.outcome = "returned"]
    ELSE IF ~r.datasources[r.i].resolved THEN [r EXCEPT !.i = @ + 1]
    ELSE [r EXCEPT !.map = Append(@, r.i),
                   !.dirs = @ \cup {r.i},
                   !.phase = PLAN_STEPS[1]]

\* An error raised by a statement of the loop body: nothing catches it, it ends
\* execute without a task map
PlanRaise(r) ==
    [r EXCEPT !.raised = @ \cup {r.i}, !.phase = "end", !.outcome = "raised"]

\* Lines 315-351, one statement: download (315), open and remove the download
\* directory (316-318), compare (320-351)
PlanStep(r, ok) ==
    IF ~ok THEN PlanRaise([r EXCEPT !.downloaded =
                              IF r.phase = "download" THEN @ \cup {r.i} ELSE @])
    ELSE CASE r.phase = "download" ->
                [r EXCEPT !.downloaded = @ \cup {r.i}, !.phase = "open"]
           [] r.phase = "open" ->
                [r EXCEPT !.dirs = @ \ {r.i}, !.phase = "compare"]
           [] r.phase = "compare" ->
                [r EXCEPT !.planned = @ \cup {r.i}, !.i = @ + 1, !.phase = "next"]

\* Line 423 of TableauDatasourceUpdate.execute: the datasources the update
\* task goes through are the entries of the task map; attempt tells whether
\* the entry is downloaded, mutated and published or skipped
ApplyVisit(r, attempt) ==
    IF r.i > Len(r.map) THEN [r EXCEPT !.phase = "refresh", !.i = 1]
    ELSE [r EXCEPT !.touched = IF attempt THEN @ \cup {r.map[r.i]} ELSE @,
                   !.i = @ + 1]

\* Line 57 of refresh_datasources: the datasources it goes through are the
\* entries of the task map; call tells whether the entry is refreshed or
\* skipped
RefreshVisit(r, call) ==
    IF r.i > Len(r.map) THEN [r EXCEPT !.phase = "end"]
    ELSE [r EXCEPT !.refreshed = IF call THEN @ \cup {r.map[r.i]} ELSE @,
                   !.i = @ + 1]

PlanNext ==
    /\ pc = "plan"
    /\ run.phase = "next"
    /\ run' = PlanLoopHead(run)
    /\ RunFrame

PlanTryStep ==
    /\ pc = "plan"
    /\ \E n \in 1..Len(PLAN_STEPS) : PLAN_STEPS[n] = run.phase
    /\ \E ok \in BOOLEAN : run' = PlanStep(run, ok)
    /\ RunFrame

PlanApply ==
    /\ pc = "plan"
    /\ run.phase = "apply"
    /\ \E attempt \in BOOLEAN : run' = ApplyVisit(run, attempt)
    /\ RunFrame

PlanRefresh ==
    /\ pc = "plan"
    /\ run.phase = "refresh"
    /\ \E call \in BOOLEAN : run' = RefreshVisit(run, call)
    /\ RunFrame

NextPlan == PlanNext \/ PlanTryStep \/ PlanApply \/ PlanRefresh

SpecPlan == InitPlan /\ [][NextPlan]_vars

Resolved(r) == {k \in 1..NumCfg : r.datasources[k].resolved}

\* C12: if downloading, opening or comparing one datasource raises during
\* planning, that datasource is skipped and planning goes on: the run returns
\* its task map, and every other resolved datasource has its TaskSet in it.
C12_PlanningFailureIsolated ==
    run.phase \in {"apply", "refresh", "end"} =>
        /\ run.outcome = "returned"
        /\ Resolved(run) \ run.raised \subseteq run.planned

\* C12 for the runs in which no statement raised
C12_PlanningWithoutFailureIsComplete ==
    (run.phase \in {"apply", "refresh", "end"} /\ run.raised = {}) =>
        /\ run.outcome = "returned"
        /\ run.planned = Resolved(run)


\* C13: a config datasource without a live id gets no entry in the task map
\* and is never downloaded during planning, nor visited by the update and
\* refresh tasks; the others are planned as if it were not there: a task map
\* that is returned holds the resolved datasources, in config order, each
\* with its TaskSet.
C13_UnresolvedDatasourceIsLeftOut ==
    /\ \A k \in (1..NumCfg) \ Resolved(run) :
          /\ k \notin SeqSet(run.map)
          /\ k \notin run.downloaded \cup run.dirs \cup run.planned
          /\ k \notin run.touched \cup run.refreshed
    /\ run.outcome = "returned" =>
          /\ SeqSet(run.map) = Resolved(run)
          /\ \A p, q \in 1..Len(run.map) : p < q => run.map[p] < run.map[q]
          /\ run.planned = Resolved(run)

C13_WitnessUnresolvedBetweenResolved ==
    /\ run.phase = "end"
    /\ run.outcome = "returned"
    /\ Resolved(run) = (1..NumCfg) \ {2}
    /\ run.touched = Resolved(run)
    /\ run.refreshed = Resolved(run)

\* C16 (planning): once the planning run is over, no download directory is left.
C16_PlanningReleasesStorage ==
    run.phase \in {"apply", "refresh", "end"} => run.dirs = {}

\* C16 (planning), for the runs in which neither a download nor an open raised
C16_PlanningReleasesStorageAfterOpen ==
    (run.phase \in {"apply", "refresh", "end"} /\ run.dirs # {}) =>
        (run.outcome = "raised" /\ run.dirs = run.raised /\ run.planned \cap run.dirs = {})

\* C16 (apply): between two datasources of the update task, and once its loop
\* is over, no download directory is left, whichever statement raised.
C16_ApplyReleasesStorage ==
    (pc = "run" /\ run.phase \in {"next", "refresh", "done"}) => run.dirs = {}

----------------------------------------------------------------------------
(* Datasource: opening a document and saving it back *)

\* Lines 166-176: the sections in the order sections() yields them (connection,
\* columns, folders_common and layout stand for the nine)
SECTIONS == <<"connection", "column", "folders", "layout">>

SectionTags == {SECTIONS[n] : n \in 1..Len(SECTIONS)}

\* Line 148: the section read with enforce_list=True
EnforcedLists == {"column"}

\* Lines 200-219: the entities of the root's elements that carry the section's
\* tag, in root order
GetSection(root, tag) ==
    SelectSeq(root, LAMBDA e : e.tag = tag)

\* Lines 146-154: the sections of a root
OpenSections(root) == [t \in SectionTags |-> [n \in 1..Len(GetSection(root, t)) |->
                                                 GetSection(root, t)[n].v]]

\* Lines 213-219: a section is a TableauFileObjects list when it is read with
\* enforce_list or has more than one element, else a single object
IsObjectList(mem, tag) == tag \in EnforcedLists \/ Len(mem[tag]) > 1

\* list.insert(i, x) of the root element: a negative index counts from the
\* end, an index out of range is clamped
PyInsert(root, i, x) ==
    LET n == Len(root)
        k == IF i < 0 THEN (IF i + n < 0 THEN 0 ELSE i + n)
             ELSE IF i > n THEN n ELSE i
    IN  SubSeq(root, 1, k) \o <<x>> \o SubSeq(root, k + 1, n)

\* Lines 188-191: the 0-based indices of the elements with the tag
ElementIndices(root, tag) == {n - 1 : n \in {m \in 1..Len(root) : root[m].tag = tag}}

RemoveSectionFromParent(root, tag) == SelectSeq(root, LAMBDA e : e.tag # tag)

SetMin(S) == CHOOSE x \in S : \A y \in S : x <= y
SetMax(S) == CHOOSE x \in S : \A y \in S : x >= y

Reverse(q) == [n \in 1..Len(q) |-> q[Len(q) + 1 - n]]

\* Lines 361-363: the items of the list, each inserted at starting_index
RECURSIVE InsertAll(_, _, _, _)
InsertAll(root, starting_index, tag, items) ==
    IF items = <<>> THEN root
    ELSE InsertAll(PyInsert(root, starting_index, [tag |-> tag, v |-> Head(items)]),
                   starting_index, tag, Tail(items))

\* Lines 351-365, the body of the loop for one section; st is
\* [root, mem, ending_index]
SaveSection(st, tag) ==
    LET section == st.mem[tag]
        idx == ElementIndices(st.root, tag)
        starting_index == IF idx # {} THEN SetMin(idx) ELSE st.ending_index
        ending_index == IF idx # {} THEN SetMax(idx) + 1 ELSE starting_index
        removed == RemoveSectionFromParent(st.root, tag)
    IN  IF section = <<>> THEN st
        ELSE IF IsObjectList(st.mem, tag)
        THEN [root |-> InsertAll(removed, starting_index, tag, Reverse(section)),
              mem |-> [st.mem EXCEPT ![tag] = Reverse(section)],
              ending_index |-> starting_index + Len(section)]
        ELSE [root |-> PyInsert(removed, starting_index, [tag |-> tag, v |-> section[1]]),
              mem |-> st.mem,
              ending_index |-> ending_index]

\* Lines 350-365: the sections from the n-th on
RECURSIVE SaveFrom(_, _)
SaveFrom(st, n) ==
    IF n > Len(SECTIONS) THEN st
    ELSE SaveFrom(SaveSection(st, SECTIONS[n]), n + 1)

\* Lines 346-366
SaveDocument(root, mem) ==
    SaveFrom([root |-> root, mem |-> mem, ending_index |-> -1], 1)

MaxEdits == 3

\* An element of the root: its tag (a section's, or "other" for what is not a
\* section) and the entity it holds
El(tag, v) == [tag |-> tag, v |-> v]

\* The roots of the documents that are opened
Roots ==
    {<<>>,
     <<El("other", 1)>>,
     <<El("other", 1), El("connection", 1), El("column", 1), El("column", 2),
       El("folders", 1), El("layout", 1)>>,
     <<El("connection", 1), El("column", 1), El("other", 1)>>,
     <<El("other", 1), El("column", 1), El("column", 2)>>,
     <<El("other", 1), El("folders", 1), El("other", 2)>>,
     <<El("column", 1), El("other", 1), El("column", 2), El("layout", 1)>>,
     <<El("connection", 1), El("layout", 1), El("layout", 2), El("other", 1)>>,
     <<El("layout", 1), El("column", 1), El("connection", 1)>>}

NewColumns == {3, 4}
NewEntity == 9

NoSave == [saved |-> FALSE]

\* A member of a container, or the content of a bare file: the suffix of its
\* name, whether it parses as XML, and the root it parses to
Member(suffix, wellformed, root) ==
    [suffix |-> suffix, wellformed |-> wellformed, root |-> root]

FullRoot ==
    <<El("other", 1), El("connection", 1), El("column", 1), El("column", 2),
      El("folders", 1), El("layout", 1)>>

Payload == Member("hyper", FALSE, <<>>)

\* The files that are opened: bare documents, and containers with no, one or
\* two document members next to the extract payload
Artifacts ==
    {[extension |-> "tds", members |-> <<Member("tds", TRUE, r)>>] : r \in Roots}
    \cup {[extension |-> x, members |-> m] :
            x \in {"tdsx", "twbx"},
            m \in {<<>>, <<Payload>>, <<Payload, Payload>>,
                   <<Member("tds", TRUE, FullRoot)>>,
                   <<Member("tds", TRUE, FullRoot), Payload>>,
                   <<Payload, Member("tds", TRUE, <<El("other", 1)>>)>>,
                   <<Member("tds", TRUE, <<>>), Member("tds", TRUE, FullRoot)>>,
                   <<Member("tds", FALSE, <<>>), Payload>>}}
    \cup {[extension |-> "tds", members |-> <<Member("tds", FALSE, <<>>)>>],
          [extension |-> "twb", members |-> <<Member("twb", TRUE, FullRoot)>>]}

\* Lines 52-57, from the n-th member of the archive on; t is
\* [tree_set, root, has_extract_data, err]
RECURSIVE ExtractFrom(_, _, _)
ExtractFrom(members, n, t) ==
    IF n > Len(members) THEN t
    ELSE IF members[n].suffix \notin {"tds", "twb"}
    THEN ExtractFrom(members, n + 1, [t EXCEPT !.has_extract_data = TRUE])
    ELSE IF ~members[n].wellformed THEN [t EXCEPT !.err = "ParseError"]
    ELSE ExtractFrom(members, n + 1,
                     [t EXCEPT !.tree_set = TRUE, !.root = members[n].root])

\* Lines 39-60
ExtractXml(file) ==
    LET t0 == [tree_set |-> FALSE, root |-> <<>>, has_extract_data |-> FALSE,
               err |-> ""]
    IN  IF file.extension \in {"tdsx", "twbx"} THEN ExtractFrom(file.members, 1, t0)
        ELSE IF ~file.members[1].wellformed THEN [t0 EXCEPT !.err = "ParseError"]
        ELSE [t0 EXCEPT !.tree_set = TRUE, !.root = file.members[1].root]

\* Lines 136-154: Datasource(file_path); reading a section of a tree that was
\* never set raises AttributeError
OpenDatasource(file) ==
    LET t == ExtractXml(file)
    IN  IF t.err # "" THEN t
        ELSE IF file.extension \notin {"tds", "tdsx"}
        THEN [t EXCEPT !.err = "TableauFileError"]
        ELSE IF ~t.tree_set THEN [t EXCEPT !.err = "AttributeError"]
        ELSE t

InitSave ==
    /\ \E file \in Artifacts :
          run = [file |-> file, phase |-> "closed", open_err |-> "",
                 has_extract_data |-> FALSE,
                 root |-> <<>>, mem |-> OpenSections(<<>>), before |-> NoSave]
    /\ doc = EmptyDoc(FALSE, CHOOSE c \in ConnVariants : TRUE)
    /\ live = doc
    /\ pre = doc
    /\ cfg = NoCfg
    /\ tasks = EmptyTasks
    /\ pc = "edit"
    /\ err = ""
    /\ applied = <<>>
    /\ passes = 0
    /\ last = NoOp

SaveFrame == UNCHANGED <<doc, cfg, tasks, pc, err, applied, live, pre>>

\* Datasource(file_path)
EditOpen ==
    /\ run.phase = "closed"
    /\ LET t == OpenDatasource(run.file)
       IN  run' = IF t.err # ""
                  THEN [run EXCEPT !.phase = "failed", !.open_err = t.err]
                  ELSE [run EXCEPT !.phase = "open", !.root = t.root,
                                   !.mem = OpenSections(t.root),
                                   !.has_extract_data = t.has_extract_data]
    /\ last' = [op |-> "open"]
    /\ UNCHANGED passes
    /\ SaveFrame

\* tfo.TableauFileObjects.add on the columns
EditAddColumn ==
    /\ run.phase = "open"
    /\ passes < MaxEdits
    /\ \E v \in NewColumns :
          /\ v \notin SeqSet(run.mem["column"])
          /\ run' = [run EXCEPT !.mem["column"] = Append(@, v), !.before = NoSave]
          /\ last' = [op |-> "add", tag |-> "column", v |-> v]
    /\ passes' = passes + 1
    /\ SaveFrame

\* tfo.TableauFileObjects.delete on the columns
EditDeleteColumn ==
    /\ run.phase = "open"
    /\ passes < MaxEdits
    /\ \E n \in 1..Len(run.mem["column"]) :
          /\ run' = [run EXCEPT !.mem["column"] = RemoveAt(@, n), !.before = NoSave]
          /\ last' = [op |-> "delete", tag |-> "column", v |-> run.mem["column"][n]]
    /\ passes' = passes + 1
    /\ SaveFrame

\* A section that is a single object is given its entity, or a new one
EditSetSection ==
    /\ run.phase = "open"
    /\ passes < MaxEdits
    /\ \E tag \in SectionTags \ EnforcedLists :
          /\ run' = [run EXCEPT !.mem[tag] = <<NewEntity>>, !.before = NoSave]
          /\ last' = [op |-> "set", tag |-> tag, v |-> NewEntity]
    /\ passes' = passes + 1
    /\ SaveFrame

\* Lines 156-164: del datasource.<section>
EditDeleteSection ==
    /\ run.phase = "open"
    /\ passes < MaxEdits
    /\ \E tag \in SectionTags \ EnforcedLists :
          /\ run.mem[tag] # <<>>
          /\ run' = [run EXCEPT !.mem[tag] = <<>>,
                                !.root = RemoveSectionFromParent(@, tag),
                                !.before = NoSave]
          /\ last' = [op |-> "del", tag |-> tag, v |-> 0]
    /\ passes' = passes + 1
    /\ SaveFrame

\* Lines 346-366: save; before keeps the document as it was when save was called
EditSave ==
    /\ run.phase = "open"
    /\ passes < MaxEdits
    /\ LET st == SaveDocument(run.root, run.mem)
       IN  run' = [run EXCEPT !.root = st.root, !.mem = st.mem,
                              !.before = [saved |-> TRUE, root |-> run.root,
                                          mem |-> run.mem]]
    /\ last' = [op |-> "save"]
    /\ passes' = passes + 1
    /\ SaveFrame

NextSave ==
    EditOpen \/ EditAddColumn \/ EditDeleteColumn \/ EditSetSection \/ EditDeleteSection \/ EditSave

SpecSave == InitSave /\ [][NextSave]_vars

\* C14: opening what save produced yields the entities the document held when
\* save was called, section by section and in the same order.
C14_OpenOfSaveIsTheDocument ==
    run.before.saved => OpenSections(run.root) = run.before.mem

\* A document whose save goes by the sections' recorded positions: no section
\* with elements in the root is held empty, and the first section to be
\* written has elements in the root
SavedInPlace(root, mem) ==
    /\ \A t \in SectionTags : mem[t] = <<>> => ElementIndices(root, t) = {}
    /\ \A n \in 1..Len(SECTIONS) :
          (mem[SECTIONS[n]] # <<>> /\ \A m \in 1..(n - 1) : mem[SECTIONS[m]] = <<>>)
          => ElementIndices(root, SECTIONS[n]) # {}

\* C14 for the documents saved in place
C14_OpenOfSaveInPlaceIsTheDocument ==
    (run.before.saved /\ SavedInPlace(run.before.root, run.before.mem))
        => OpenSections(run.root) = run.before.mem

\* The sections that have elements in the root
Present(root) == {t \in SectionTags : ElementIndices(root, t) # {}}

\* The root without the elements of the sections outside tags, and with each
\* section of tags reduced to its first element
Skeleton(root, tags) ==
    LET keep == {n \in 1..Len(root) :
                    \/ root[n].tag \notin SectionTags
                    \/ /\ root[n].tag \in tags
                       /\ n - 1 = SetMin(ElementIndices(root, root[n].tag))}
        RECURSIVE Pick(_)
        Pick(n) == IF n > Len(root) THEN <<>>
                   ELSE (IF n \in keep
                         THEN <<IF root[n].tag \in SectionTags
                                THEN [tag |-> root[n].tag, v |-> 0] ELSE root[n]>>
                         ELSE <<>>) \o Pick(n + 1)
    IN  Pick(1)

\* The place of a section in SECTIONS
SectionRank(tag) == CHOOSE n \in 1..Len(SECTIONS) : SECTIONS[n] = tag

\* C15, first part: the sections that had elements in the root keep their
\* place among each other and among the elements that belong to no section.
C15_ExistingSectionsKeepPlace ==
    run.before.saved =>
        Skeleton(run.root, Present(run.before.root))
            = Skeleton(run.before.root, Present(run.before.root))

\* C15, second part: a section written without a prior element starts right
\* after the last element of the nearest earlier section the root holds, and
\* at the start of the root when there is none.
C15_NewSectionFollowsPrevious ==
    run.before.saved =>
        \A t \in Present(run.root) \ Present(run.before.root) :
            LET earlier == {u \in Present(run.root) : SectionRank(u) < SectionRank(t)}
                prev == CHOOSE u \in earlier :
                            \A w \in earlier : SectionRank(w) <= SectionRank(u)
            IN  SetMin(ElementIndices(run.root, t)) =
                    IF earlier = {} THEN 0
                    ELSE SetMax(ElementIndices(run.root, prev)) + 1

\* C15, third part: after save a section that is a single object has at most
\* one element in the root.
C15_SingletonWrittenOnce ==
    run.before.saved =>
        \A t \in SectionTags \ EnforcedLists :
            Cardinality(ElementIndices(run.root, t)) <= 1

\* C15: the three parts together
C15_SectionPlacementOnSave ==
    /\ C15_ExistingSectionsKeepPlace
    /\ C15_NewSectionFollowsPrevious
    /\ C15_SingletonWrittenOnce

\* The containers that hold no document member
NoPrimaryMember(file) ==
    /\ file.extension \in {"tdsx", "twbx"}
    /\ \A n \in 1..Len(file.members) : file.members[n].suffix \notin {"tds", "twb"}

\* C17: opening a container that holds no primary document member fails with
\* the format error (TableauFileError).
C17_NoPrimaryMemberIsFormatError ==
    (NoPrimaryMember(run.file) /\ run.phase # "closed") =>
        (run.phase = "failed" /\ run.open_err = "TableauFileError")

\* C17, second half: opening such a container as a Datasource never yields a
\* document.
C17_NoPrimaryMemberNeverOpens ==
    (NoPrimaryMember(run.file) /\ run.phase # "closed") => run.phase = "failed"

----------------------------------------------------------------------------
(* The planner's decision for a column *)

\* The metadata record of the column's remote name maps to another local name
MetadataUpdateNeeded(d, column) ==
    /\ column.remote_name # NONE
    /\ \E i \in 1..Len(d.md) :
          /\ d.md[i].remote_name = column.remote_name
          /\ d.md[i].local_name # column.name

\* The column has a metadata record, and the mapping table lacks its pair,
\* unless the table is empty and the name is the bracketed remote name
NeedsMapping(d, column) ==
    /\ column.remote_name # NONE
    /\ \E i \in 1..Len(d.md) :
          /\ d.md[i].remote_name = column.remote_name
          /\ ~InCols(d.cols, [key |-> column.name,
                               value |-> MapValue(d.md[i].parent_name,
                                                  column.remote_name)])
    /\ ~(d.cols = <<>> /\ Inner(column.name) = column.remote_name)

\* The add_column (modify_column) tasks of t that carry the column
TasksCarrying(t, action, column) ==
    {i \in 1..Len(t[action]) : t[action][i].name = column.name}

\* The decision for a desired column, given whether it counts as out of its
\* folder: one add_column when it does not exist live, one modify_column when
\* it exists and something differs, no task otherwise, and the task carries
\* the desired column with its folder name and remote name
DecisionFor(d, t, column, out_of_folder) ==
    LET exists == ColumnIndex(d.columns, column.name) # 0
        differs == \/ ~ColumnMatches(d, column)
                   \/ out_of_folder
                   \/ MetadataUpdateNeeded(d, column)
                   \/ NeedsMapping(d, column)
    IN  /\ Cardinality(TasksCarrying(t, "add_column", column))
              = IF exists THEN 0 ELSE 1
        /\ Cardinality(TasksCarrying(t, "modify_column", column))
              = IF exists /\ differs THEN 1 ELSE 0
        /\ \A a \in {"add_column", "modify_column"} :
              \A i \in TasksCarrying(t, a, column) : t[a][i] = column

\* C18: for every desired column Plan emits add_column iff the column does not
\* exist live, else modify_column iff its attributes differ, or it is not in
\* the folder it declares, or a metadata update is needed, or it needs
\* mapping; the task carries the full desired attribute set; otherwise no
\* column task is emitted.
C18_ColumnDecision ==
    pc = "planned" =>
        \A column \in CfgColumnSet(cfg) :
            DecisionFor(live, tasks, column,
                        column.folder_name # NONE /\ ~InDeclaredFolder(live, column))

\* C18 with a column that declares no folder counted as not in its folder
C18_ColumnDecisionFolderlessIsOut ==
    pc = "planned" =>
        \A column \in CfgColumnSet(cfg) :
            DecisionFor(live, tasks, column, ~InDeclaredFolder(live, column))

----------------------------------------------------------------------------
(* __compare_connection and the update_connection task on their own *)

MaxConnPasses == 2

\* A sub-connection of another class
OtherConnection == [ExpectedConn EXCEPT !.class_name = <<"t">>, !.dbname = <<"x">>]

\* An attribute of the live sub-connection that the expected attributes lack
WithPort(attrs) ==
    [a \in DOMAIN attrs \cup {"port"} |-> IF a = "port" THEN <<"4">> ELSE attrs[a]]

\* The live connections: the named connection's caption, the attributes of
\* its sub-connection, each as expected, in another letter case, with another
\* value, or absent, and the sub-connections of other classes
LiveConnections ==
    {[caption |-> cap,
      attrs |-> WithPort([ExpectedConn EXCEPT
                             !.dbname = db, !.server = sv, !.username = us]),
      others |-> others] :
        cap \in {<<"h">>, <<"k">>},
        db \in {<<"d">>, <<"D">>, <<"x">>, NONE},
        sv \in {<<"h">>, <<"H">>, NONE},
        us \in {<<"u">>, <<"U">>},
        others \in {<<>>, <<OtherConnection>>}}

\* A datasource with an extract, whose connection holds the live connection,
\* one metadata record and one mapping entry
ConnDoc(conn) ==
    [EmptyDoc(TRUE, conn) EXCEPT
        !.md = <<MdRecord(<<"A">>, ColA, Br(RelationName))>>,
        !.cols = <<[key |-> ColA, value |-> MapValue(Br(RelationName), <<"A">>)]>>,
        !.emd = <<[MdRecord(<<"A">>, ColA, Br(ExtractRelationName))
                      EXCEPT !.family = RelationName]>>,
        !.ecols = <<[key |-> ColA,
                     value |-> MapValue(Br(ExtractRelationName), <<"A">>)]>>]

InitConn ==
    /\ \E conn \in LiveConnections : doc = ConnDoc(conn)
    /\ live = doc
    /\ pre = doc
    /\ cfg = NoCfg
    /\ tasks = EmptyTasks
    /\ pc = "conn"
    /\ err = ""
    /\ applied = <<>>
    /\ passes = 0
    /\ last = NoOp
    /\ run = NoRun

\* Line 322: __compare_connection on the document
ConnCompare ==
    /\ pc \in {"conn", "conn_applied"}
    /\ passes < MaxConnPasses
    /\ tasks' = CompareConnection(EmptyTasks, doc.conn, cfg.conn)
    /\ pc' = "conn_planned"
    /\ passes' = passes + 1
    /\ pre' = doc
    /\ last' = [op |-> "compare"]
    /\ UNCHANGED <<doc, cfg, err, applied, live, run>>

\* Line 446: __do_action(tasks, datasource, 'update_connection'); planned
\* tells whether the planned tasks are applied, or the expected attributes
\* are applied as a task whatever was planned
ConnUpdate ==
    /\ pc = "conn_planned"
    /\ \E planned \in BOOLEAN :
          LET t == IF planned THEN tasks
                   ELSE AddTask(EmptyTasks, "update_connection", cfg.conn)
              r == DoAction(t, doc, "update_connection")
          IN  /\ doc' = r.d
              /\ err' = r.err
              /\ applied' = Repeat("update_connection", r.n)
    /\ pre' = doc
    /\ pc' = "conn_applied"
    /\ last' = [op |-> "update_connection"]
    /\ UNCHANGED <<cfg, tasks, passes, live, run>>

NextConn == ConnCompare \/ ConnUpdate

SpecConn == InitConn /\ [][NextConn]_vars

\* The expected value differs, case-insensitively, from the live value; an
\* absent live value differs from every expected value
AttributeDiffers(conn, expected_attrs, a) ==
    Lower(conn.attrs[a]) # Lower(expected_attrs[a])

\* What a connection check finds, with absent live values counted
\* (count_absent) or left out
ConnectionDiffers(conn, expected_attrs, count_absent) ==
    \/ expected_attrs.server # conn.caption
    \/ \E a \in ConnAttrs :
          /\ AttributeDiffers(conn, expected_attrs, a)
          /\ count_absent \/ conn.attrs[a] # NONE

\* The update_connection tasks are one task with the full expected attribute
\* set when there is a difference, none otherwise
ConnectionTaskIff(t, expected_attrs, difference) ==
    t["update_connection"] = IF difference THEN <<expected_attrs>> ELSE <<>>

\* C19: Plan emits exactly one update_connection task, with the full expected
\* attribute set, iff the expected server differs from the caption or an
\* expected value differs case-insensitively from the live value, an absent
\* or empty live value counting as different; else it emits none.
C19_ConnectionTaskIffDifference ==
    pc = "conn_planned" =>
        ConnectionTaskIff(tasks, cfg.conn, ConnectionDiffers(doc.conn, cfg.conn, TRUE))

\* C19 with absent live values left out of the comparison
C19_ConnectionTaskIffPresentDifference ==
    pc = "conn_planned" =>
        ConnectionTaskIff(tasks, cfg.conn, ConnectionDiffers(doc.conn, cfg.conn, FALSE))

\* The two connections have the same caption and, up to letter case, the
\* same attribute values
SameConnection(c1, c2) ==
    /\ c1.caption = c2.caption
    /\ \A a \in ConnAttrs : Lower(c1.attrs[a]) = Lower(c2.attrs[a])

C20_UpdateConnectionConvergesGivenCaption ==
    /\ (pc = "conn_planned" /\ applied # <<>> /\ doc.conn.caption = cfg.conn.server)
          => tasks["update_connection"] = <<>>
    /\ (pc = "conn_applied" /\ applied # <<>>
           /\ ~ConnectionDiffers(pre.conn, cfg.conn, TRUE))
          => SameConnection(doc.conn, pre.conn)

----------------------------------------------------------------------------
(* The frame of update_connection *)

\* The update_connection task just applied
AppliedConnectionTask ==
    IF tasks["update_connection"] # <<>> THEN tasks["update_connection"][1]
    ELSE cfg.conn

\* C21: applying an update_connection task overwrites, on the sub-connection
\* of the task's class, exactly the attributes the task holds; the attributes
\* the task omits, the other sub-connections, the metadata records and the
\* mapping tables are unchanged.
C21_UpdateConnectionFrame ==
    (pc = "conn_applied" /\ applied # <<>>) =>
        LET task == AppliedConnectionTask
        IN  /\ DOMAIN doc.conn.attrs = DOMAIN pre.conn.attrs \cup DOMAIN task
            /\ \A a \in DOMAIN task : doc.conn.attrs[a] = task[a]
            /\ \A a \in DOMAIN pre.conn.attrs \ DOMAIN task :
                  doc.conn.attrs[a] = pre.conn.attrs[a]
            /\ doc.conn.others = pre.conn.others
            /\ doc.conn.caption = pre.conn.caption
            /\ doc.md = pre.md /\ doc.cols = pre.cols
            /\ doc.emd = pre.emd /\ doc.ecols = pre.ecols
            /\ err = ""

\* A task changed the database of a sub-connection that holds an attribute the
\* task omits, next to a sub-connection of another class
C21_WitnessOmittedAttributeKept ==
    /\ pc = "conn_applied" /\ applied # <<>>
    /\ pre.conn.attrs.dbname = <<"x">>
    /\ doc.conn.attrs.dbname = <<"d">>
    /\ doc.conn.attrs.port = <<"4">>
    /\ doc.conn.others = <<OtherConnection>>
    /\ doc.md # <<>> /\ doc.cols # <<>>

----------------------------------------------------------------------------
(* Folder reconciliation *)

LiveFolderNames(d) == {d.folders[i].name : i \in 1..Len(d.folders)}

DesiredFolderNames(c) == {c.folders[i] : i \in 1..Len(c.folders)}

\* The names of the tasks of the list, and each name is there once
TaskNames(list) == {list[i].name : i \in 1..Len(list)}

OncePerName(list) == \A i, j \in 1..Len(list) : list[i].name = list[j].name => i = j

\* C22: Plan emits one delete_folder for exactly each live folder whose name
\* the desired folders lack, one add_folder for exactly each desired folder
\* whose name the live folders lack; no name is in both lists, and a folder on
\* both sides gets no folder task whatever it holds; a folder task holds the
\* name only.
C22_FolderReconciliation ==
    pc = "planned" =>
        /\ TaskNames(tasks["delete_folder"])
               = LiveFolderNames(live) \ DesiredFolderNames(cfg)
        /\ TaskNames(tasks["add_folder"])
               = DesiredFolderNames(cfg) \ LiveFolderNames(live)
        /\ OncePerName(tasks["delete_folder"])
        /\ OncePerName(tasks["add_folder"])
        /\ TaskNames(tasks["delete_folder"]) \cap TaskNames(tasks["add_folder"]) = {}
        /\ \A a \in {"delete_folder", "add_folder"} :
              \A i \in 1..Len(tasks[a]) : DOMAIN tasks[a][i] = {"name"}

\* A plan with a folder to delete, next to a folder that is on both sides and
\* holds a column live
C22_WitnessDeleteNextToKept ==
    /\ pc = "planned"
    /\ tasks["delete_folder"] # <<>>
    /\ \E i \in 1..Len(live.folders) :
          /\ live.folders[i].name \in DesiredFolderNames(cfg)
          /\ live.folders[i].folder_item # <<>>

\* A plan over a live folder that is on both sides and holds no column
C22_WitnessEmptyFolderKept ==
    /\ pc = "planned"
    /\ \E i \in 1..Len(live.folders) :
          /\ live.folders[i].name \in DesiredFolderNames(cfg)
          /\ live.folders[i].folder_item = <<>>

----------------------------------------------------------------------------
(* Ordinals of the metadata records to add *)

\* The ordinals of the records are 0 .. n-1
OrdinalsDense(records) ==
    {records[i].ordinal : i \in 1..Len(records)} = 0..(Len(records) - 1)

\* No queued ordinal (of the connection variant which) is the ordinal of a record
OrdinalsFresh(list, which, records) ==
    \A i \in 1..Len(list) : \A j \in 1..Len(records) :
        list[i][which].ordinal # records[j].ordinal

\* C23: in one planning pass the k-th add_metadata task (k from 0) carries the
\* live primary record count plus k as primary ordinal and the live extract
\* record count plus k as extract ordinal; the queued ordinals are strictly
\* increasing, and differ from the ordinal of every live record when the live
\* ordinals are 0 .. n-1.
C23_OrdinalAssignment ==
    pc = "planned" =>
        LET list == tasks["add_metadata"]
        IN  /\ \A i \in 1..Len(list) :
                  /\ list[i].conn.ordinal = Len(live.md) + (i - 1)
                  /\ list[i].extract.ordinal = Len(live.emd) + (i - 1)
            /\ \A i, j \in 1..Len(list) :
                  i < j => /\ list[i].conn.ordinal < list[j].conn.ordinal
                           /\ list[i].extract.ordinal < list[j].extract.ordinal
            /\ OrdinalsDense(live.md) => OrdinalsFresh(list, "conn", live.md)
            /\ OrdinalsDense(live.emd) => OrdinalsFresh(list, "extract", live.emd)

\* Two add_metadata tasks queued against a datasource whose connection and
\* extract hold one record each
C23_WitnessTwoQueuedAfterOneLive ==
    /\ pc = "planned"
    /\ live.has_extract
    /\ Len(live.md) = 1 /\ Len(live.emd) = 1
    /\ OrdinalsDense(live.md) /\ OrdinalsDense(live.emd)
    /\ Len(tasks["add_metadata"]) = 2
    /\ tasks["add_metadata"][2].conn.ordinal = 2
    /\ tasks["add_metadata"][2].extract.ordinal = 2

----------------------------------------------------------------------------
(* The order of a saved list *)

\* The sections save writes as lists
WrittenLists(mem) == {t \in SectionTags : IsObjectList(mem, t) /\ mem[t] # <<>>}

\* The section's elements hold the entities of the list, in the list's order,
\* at contiguous positions of the root
SavedInOrder(root, tag, list) ==
    /\ OpenSections(root)[tag] = list
    /\ \E start \in 0..Len(root) :
          ElementIndices(root, tag) = start..(start + Len(list) - 1)

\* C24: after save the elements of every list-backed section are in the root
\* in the order the list had when save was called, at contiguous positions.
C24_SavedListOrder ==
    run.before.saved =>
        \A t \in WrittenLists(run.before.mem) :
            SavedInOrder(run.root, t, run.before.mem[t])

\* C24 for the lists that are not the first section written without a prior
\* element: the list had elements in the root, or a section before it was
\* written
C24_SavedListOrderAfterFirst ==
    run.before.saved =>
        \A t \in WrittenLists(run.before.mem) :
            (\/ ElementIndices(run.before.root, t) # {}
             \/ \E u \in SectionTags : /\ SectionRank(u) < SectionRank(t)
                                       /\ run.before.mem[u] # <<>>)
            => SavedInOrder(run.root, t, run.before.mem[t])

----------------------------------------------------------------------------
(* Datasource.enforce_column and remove_empty_folders on documents as found *)

MaxCalls == 2

\* Metadata records of a connection for the remote names, none mapped yet
Records(remotes, parent, family) ==
    [i \in 1..Len(remotes) |->
        [MdRecord(remotes[i], NONE, Br(parent)) EXCEPT !.family = family,
                                                       !.ordinal = i - 1]]

MappingCol(key, parent, remote) == [key |-> key, value |-> MapValue(Br(parent), remote)]

\* Mapping tables with no two entries of one key: empty, the pair of [A], [A]
\* mapped to another remote field, and [A] and [B] mapped crosswise
MappingTables(parent) ==
    <<  <<>>,
        <<MappingCol(ColA, parent, <<"A">>)>>,
        <<MappingCol(ColA, parent, <<"B">>)>>,
        <<MappingCol(ColA, parent, <<"B">>), MappingCol(ColB, parent, <<"A">>)>>  >>

FolderLists ==
    {<<>>,
     <<[name |-> FolderF, folder_item |-> <<ColA>>],
       [name |-> FolderG, folder_item |-> <<>>]>>,
     <<[name |-> FolderF, folder_item |-> <<>>],
       [name |-> FolderG, folder_item |-> <<ColB, ColA>>]>>,
     <<[name |-> FolderF, folder_item |-> <<>>],
       [name |-> FolderG, folder_item |-> <<>>]>>}

\* Documents as they are found in files: with or without an extract, whose
\* records may lack what the connection holds
FoundDocs ==
    {[EmptyDoc(ext, CHOOSE c \in ConnVariants : c.attrs.dbname = <<"D">>) EXCEPT
         !.folders = fs,
         !.md = Records(remotes, RelationName, NONE),
         !.emd = IF ext /\ mirrored
                 THEN Records(remotes, ExtractRelationName, RelationName)
                 ELSE <<>>,
         !.cols = MappingTables(RelationName)[k],
         !.ecols = IF ext THEN MappingTables(ExtractRelationName)[k] ELSE <<>>] :
        ext \in BOOLEAN, mirrored \in BOOLEAN, fs \in FolderLists,
        remotes \in {<<>>, <<<<"A">>>>, <<<<"A">>, <<"B">>>>},
        k \in 1..4}

InitCol ==
    /\ doc \in FoundDocs
    /\ live = doc
    /\ pre = doc
    /\ cfg = NoCfg
    /\ tasks = EmptyTasks
    /\ pc = "col"
    /\ err = ""
    /\ applied = <<>>
    /\ passes = 0
    /\ last = NoOp
    /\ run = NoRun

\* tds.enforce_column(column, folder_name, remote_name); a call that raised
\* leaves the document as far as it got, and the document may be used again
ColEnforceColumn ==
    /\ pc = "col"
    /\ passes < MaxCalls
    /\ \E name \in ColNames, calculation \in {NONE, Calc},
          folder_name \in {NONE, FolderF},
          remote_name \in {NONE} \cup RemoteNames :
          LET attrs == CfgColumn(name, calculation, folder_name, remote_name)
              r == EnforceColumn(doc, ColumnOf(attrs), folder_name, remote_name)
          IN  /\ doc' = r.d
              /\ err' = r.err
              /\ last' = [op |-> "enforce_column", attrs |-> attrs]
    /\ pre' = doc
    /\ passes' = passes + 1
    /\ OpFrame

\* tds.remove_empty_folders()
ColRemoveEmptyFolders ==
    /\ pc = "col"
    /\ passes < MaxCalls
    /\ LET r == RemoveEmptyFolders(doc)
       IN  /\ doc' = r.d
           /\ err' = r.err
           /\ last' = [op |-> "remove_empty_folders", removed |-> r.removed]
    /\ pre' = doc
    /\ passes' = passes + 1
    /\ OpFrame

NextCol == ColEnforceColumn \/ ColRemoveEmptyFolders

SpecCol == InitCol /\ [][NextCol]_vars

\* enforce_column was just called with a remote name for a plain column
EnforcedWithRemote ==
    /\ last.op = "enforce_column"
    /\ last.attrs.remote_name # NONE
    /\ last.attrs.calculation = NONE

\* C25: enforce_column with a remote name on a column that is not calculated
\* fails when the connection has no metadata record of the remote name, and
\* when the document has an extract whose connection has none; no call of
\* enforce_column changes the number of metadata records of either.
C25_MissingRecordFailsAndNoneCreated ==
    /\ EnforcedWithRemote =>
          /\ MetadataIndex(pre.md, last.attrs.remote_name) = 0 => err # ""
          /\ (pre.has_extract /\ MetadataIndex(pre.emd, last.attrs.remote_name) = 0)
                => err # ""
    /\ last.op = "enforce_column" =>
          /\ Len(doc.md) = Len(pre.md)
          /\ Len(doc.emd) = Len(pre.emd)
          /\ \A i \in 1..Len(doc.md) : doc.md[i].remote_name = pre.md[i].remote_name
          /\ \A i \in 1..Len(doc.emd) : doc.emd[i].remote_name = pre.emd[i].remote_name

\* The connection has the record and the extract lacks it: the call failed
C25_WitnessExtractLacksRecord ==
    /\ EnforcedWithRemote
    /\ pre.has_extract
    /\ MetadataIndex(pre.md, last.attrs.remote_name) # 0
    /\ MetadataIndex(pre.emd, last.attrs.remote_name) = 0
    /\ err = "TableauFileError"
    /\ Len(doc.md) = 2 /\ Len(doc.emd) = 0

\* C26: enforce_column with no remote name, or with a calculated column,
\* leaves the metadata records and the mapping tables of the connection and
\* of the extract as they were, and does not fail, whether or not a metadata
\* record of the remote name exists.
C26_NoMetadataForCalculatedOrUnnamed ==
    (/\ last.op = "enforce_column"
     /\ last.attrs.remote_name = NONE \/ last.attrs.calculation # NONE)
    => /\ doc.md = pre.md /\ doc.cols = pre.cols
       /\ doc.emd = pre.emd /\ doc.ecols = pre.ecols
       /\ err = ""

\* A calculated column that was not in the document was enforced with a
\* remote name no metadata record has
C26_WitnessCalculatedWithRemote ==
    /\ last.op = "enforce_column"
    /\ last.attrs.calculation # NONE
    /\ last.attrs.remote_name = <<"B">>
    /\ MetadataIndex(pre.md, <<"B">>) = 0
    /\ pre.md # <<>> /\ pre.cols # <<>> /\ pre.has_extract
    /\ ColumnIndex(pre.columns, last.attrs.name) = 0
    /\ ColumnIndex(doc.columns, last.attrs.name) # 0
    /\ err = ""

----------------------------------------------------------------------------
(* The mapping table under enforce_column *)

\* No two entries of the table have the same key (so none are identical)
UniqueKeys(cols) ==
    \A i, j \in 1..Len(cols) : cols[i].key = cols[j].key => i = j

\* The pair enforce_column upserts for the remote name, from the record the
\* records held before the call
EnforcedPair(records, name, remote_name) ==
    [key |-> name,
     value |-> MapValue(records[MetadataIndex(records, remote_name)].parent_name,
                        remote_name)]

\* One entry has the pair's key and another entry has the pair's value
MatchedTwice(cols, mc) ==
    \E i, j \in 1..Len(cols) :
        i # j /\ cols[i].key = mc.key /\ cols[j].value = mc.value

\* The call found the record of the remote name among the records
Upserted(records) ==
    /\ EnforcedWithRemote
    /\ MetadataIndex(records, last.attrs.remote_name) # 0

\* C27: from a mapping table with no two entries of one key, after any
\* sequence of enforce_column calls the table has no two entries of one key
\* and no two identical entries, and it holds the entry {key: column name,
\* value: <parent name>.[<remote name>]} of the column enforced last.
C27_MappingTableUnique ==
    /\ UniqueKeys(doc.cols)
    /\ UniqueKeys(doc.ecols)
    /\ Upserted(pre.md) =>
          InCols(doc.cols, EnforcedPair(pre.md, last.attrs.name, last.attrs.remote_name))

\* C27 for the calls whose pair is not matched by key in one entry and by
\* value in another: such a call keeps the keys of the table distinct and
\* leaves the pair in it
C27_MappingTableUniqueUnlessMatchedTwice ==
    /\ (/\ Upserted(pre.md)
        /\ UniqueKeys(pre.cols)
        /\ ~MatchedTwice(pre.cols, EnforcedPair(pre.md, last.attrs.name,
                                                last.attrs.remote_name)))
       => /\ UniqueKeys(doc.cols)
          /\ InCols(doc.cols, EnforcedPair(pre.md, last.attrs.name,
                                           last.attrs.remote_name))
    /\ (/\ Upserted(pre.emd)
        /\ pre.has_extract /\ err = ""
        /\ UniqueKeys(pre.ecols)
        /\ ~MatchedTwice(pre.ecols, EnforcedPair(pre.emd, last.attrs.name,
                                                 last.attrs.remote_name)))
       => /\ UniqueKeys(doc.ecols)
          /\ InCols(doc.ecols, EnforcedPair(pre.emd, last.attrs.name,
                                            last.attrs.remote_name))
    /\ last.op = "enforce_column" =>
          /\ Len(doc.cols) <= Len(pre.cols) + 1
          /\ Len(doc.ecols) <= Len(pre.ecols) + 1

----------------------------------------------------------------------------
(* Datasources with nothing to do *)

\* The six task lists of the TaskSet are empty
AllListsEmpty(t) ==
    \A n \in 1..Len(UPDATE_ACTIONS) : t[UPDATE_ACTIONS[n]] = <<>>

\* C28: in the apply phase a datasource whose six task lists are empty is
\* never downloaded, mutated, saved or published and adds no error; a
\* datasource that is not excluded and has a non-empty task list is attempted.
C28_NoWorkSkipped ==
    \A k \in 1..NumDs :
        /\ AllListsEmpty(run.all_tasks[k].tasks) =>
              /\ k \notin run.attempted \cup run.dirs
              /\ k \notin run.published \cup run.raised
              /\ k \notin SeqSet(run.errors)
              /\ (run.phase \in {TRY_STEPS[n] : n \in 1..Len(TRY_STEPS)}
                     \cup {"finally"}) => run.i # k
        /\ (/\ run.phase \in {"refresh", "done"}
            /\ ~AllListsEmpty(run.all_tasks[k].tasks)
            /\ run.all_tasks[k].datasource_name \notin run.excluded)
           => k \in run.attempted

\* The second of three datasources has nothing to do and is not excluded; the
\* first failed and the third was published
C28_WitnessNoWorkBetweenAttempts ==
    /\ run.phase = "done"
    /\ AllListsEmpty(run.all_tasks[2].tasks)
    /\ run.all_tasks[2].datasource_name \notin run.excluded
    /\ 1 \in run.raised
    /\ 3 \in run.published
    /\ run.attempted = {1, 3}

----------------------------------------------------------------------------
(* remove_empty_folders *)

\* C29: remove_empty_folders deletes exactly the folders that hold no
\* folder-item and returns exactly their names; the folders that hold one or
\* more keep their items and their order; afterwards no folder is empty.
C29_RemoveEmptyFolders ==
    last.op = "remove_empty_folders" =>
        LET empty == SelectSeq(pre.folders, LAMBDA f : f.folder_item = <<>>)
        IN  /\ doc.folders = SelectSeq(pre.folders, LAMBDA f : f.folder_item # <<>>)
            /\ last.removed = [i \in 1..Len(empty) |-> empty[i].name]
            /\ \A i \in 1..Len(doc.folders) : doc.folders[i].folder_item # <<>>
            /\ [doc EXCEPT !.folders = pre.folders] = pre
            /\ err = ""

\* After an enforce_column call, remove_empty_folders removed the empty folder
\* G and kept folder F with its one column
C29_WitnessEmptiedFolderRemoved ==
    /\ last.op = "remove_empty_folders"
    /\ last.removed = <<FolderG>>
    /\ Len(pre.folders) = 2
    /\ \E i \in 1..2 : pre.folders[i].name = FolderF /\ Len(pre.folders[i].folder_item) = 1
    /\ Len(doc.folders) = 1
    /\ doc.folders[1].name = FolderF
    /\ passes = 2

----------------------------------------------------------------------------
(* Publishing *)

\* The statements of the try up to and including the step
StepsThrough(step) ==
    SubSeq(TRY_STEPS, 1, CHOOSE n \in 1..Len(TRY_STEPS) : TRY_STEPS[n] = step)

\* C30: in the apply phase a datasource is published only after the tasks of
\* all six kinds were applied and the document was saved, none of them
\* raising; a datasource for which a task application or the save raised is
\* not published in the run.
C30_PublishAfterSuccess ==
    /\ run.published \cap run.raised = {}
    /\ run.phase = "publish" =>
          (run.done = StepsThrough("save") /\ run.i \notin run.raised)
    /\ (run.phase = "finally" /\ run.i \in run.published) =>
          run.done = StepsThrough("publish")
    /\ (run.phase = "finally" /\ run.i \in run.raised) =>
          (IsPrefix(run.done, StepsThrough("save")) /\ run.i \notin run.published)
    /\ \A n \in 1..Len(APPLY_ORDER) :
          StepsThrough("save")[2 + n] = APPLY_ORDER[n]

\* The first datasource was published; of the second, the tasks of three
\* kinds were applied and the fourth raised: it was not published
C30_WitnessRaisedAfterThreeKinds ==
    /\ run.phase = "finally"
    /\ run.i = 2
    /\ 1 \in run.published
    /\ 2 \in run.raised
    /\ run.done = StepsThrough(APPLY_ORDER[3])
    /\ 2 \notin run.published

----------------------------------------------------------------------------
(* Planning reads the document *)

\* The remote names of the tasks of the list (add_column or modify_column)
TaskRemoteNames(list) == {list[i].remote_name : i \in 1..Len(list)}

\* C31: a planning pass leaves the published document and the configuration
\* as they were, and the Datasource it compared is still the document that was
\* downloaded; the metadata audit warns about exactly the live records whose
\* remote name no desired column declares and queues no task: no add_metadata
\* task and no column task carries such a remote name.
C31_PlanningReadOnly ==
    [][(pc = "idle" /\ pc' = "planned") =>
          /\ live' = live
          /\ cfg' = cfg
          /\ doc' = live
          /\ SeqSet(last'.warnings) =
                 {live.md[i].remote_name : i \in 1..Len(live.md)}
                 \ {column.remote_name : column \in CfgColumnSet(cfg)}
          /\ \A remote \in SeqSet(last'.warnings) :
                /\ MetadataTasksFor(tasks', remote) = {}
                /\ remote \notin TaskRemoteNames(tasks'["add_column"])
                                   \cup TaskRemoteNames(tasks'["modify_column"])
          /\ DOMAIN tasks' = DOMAIN EmptyTasks]_vars

\* A pass that warned about a live record and queued tasks of three kinds
\* against a document that holds columns, folders and metadata
C31_WitnessWarnedAndPlanned ==
    /\ pc = "planned"
    /\ last.warnings = << <<"C">> >>
    /\ doc = live
    /\ live.columns # <<>> /\ live.folders # <<>> /\ live.md # <<>>
    /\ tasks["add_metadata"] # <<>>
    /\ tasks["modify_column"] # <<>>
    /\ tasks["delete_folder"] # <<>>

----------------------------------------------------------------------------
(* Saving again *)

\* C32: save leaves every section held in memory in the order it had, and a
\* save that follows a save with no mutation in between leaves the document
\* (the root's elements and their order) as the first save wrote it.
C32_SaveIdempotent ==
    [][last'.op = "save" =>
          /\ run'.mem = run.mem
          /\ last.op = "save" => run'.root = run.root]_vars

\* C32 for the documents whose sections hold one entity at most
C32_SaveIdempotentUpToOneEntity ==
    [][(last'.op = "save" /\ \A t \in SectionTags : Len(run.mem[t]) <= 1) =>
          /\ run'.mem = run.mem
          /\ last.op = "save" => run'.root = run.root]_vars

----------------------------------------------------------------------------
(* enforce_column called again *)

\* enforce_column is called right after a call with the same arguments that
\* did not fail
CalledAgain ==
    /\ last.op = "enforce_column"
    /\ err = ""
    /\ last'.op = "enforce_column"
    /\ last'.attrs = last.attrs

\* No two entries of the table are identical
NoIdenticalEntries(cols) ==
    \A i, j \in 1..Len(cols) : cols[i] = cols[j] => i = j

\* The column is there once, its folder-item is in one folder at most and
\* once, and no two entries of a mapping table are identical
NothingDuplicated(d, name) ==
    /\ Cardinality({i \in 1..Len(d.columns) : d.columns[i].name = name}) = 1
    /\ Cardinality(FoldersHolding(d, name)) <= 1
    /\ \A i \in FoldersHolding(d, name) : CountOf(d.folders[i].folder_item, name) = 1
    /\ NoIdenticalEntries(d.cols)
    /\ NoIdenticalEntries(d.ecols)

\* C33: a second enforce_column with the same arguments right after a call
\* that did not fail leaves the columns, the folders and their folder-items,
\* the metadata records and the mapping tables of the connection and of the
\* extract as they were after the first call, does not fail, and the document
\* holds no duplicated column, folder-item or mapping entry.
C33_EnforceColumnIdempotent ==
    [][CalledAgain =>
          /\ doc' = doc
          /\ err' = ""
          /\ NothingDuplicated(doc', last.attrs.name)]_vars

\* C33 without the mapping tables' entries being distinct: the second call
\* changes nothing, and the column and its folder-item are there once
C33_SecondCallChangesNothing ==
    [][CalledAgain =>
          /\ doc' = doc
          /\ err' = ""
          /\ NothingDuplicated([doc' EXCEPT !.cols = <<>>, !.ecols = <<>>],
                               last.attrs.name)]_vars

----------------------------------------------------------------------------
(* enforce_column that fails *)

\* enforce_column was just called and raised the error of a missing record
EnforceFailed == last.op = "enforce_column" /\ err = "TableauFileError"

\* C34: when enforce_column fails because the connection, or the extract,
\* has no metadata record of the remote name, the document is as it was
\* before the call: columns, folders and folder-items, layout flag, metadata
\* records and mapping table of the connection.
C34_FailureLeavesDocument ==
    EnforceFailed =>
        /\ doc.columns = pre.columns
        /\ doc.folders = pre.folders
        /\ doc.show_structure = pre.show_structure
        /\ doc.md = pre.md
        /\ doc.cols = pre.cols

\* What a failed call does leave alone: the records and the mapping table of
\* the extract, and those of the connection when it is the connection that
\* lacks the record
C34_FailureLeavesMetadataNotYetReached ==
    EnforceFailed =>
        /\ doc.emd = pre.emd
        /\ doc.ecols = pre.ecols
        /\ MetadataIndex(pre.md, last.attrs.remote_name) = 0 =>
              (doc.md = pre.md /\ doc.cols = pre.cols)
        /\ doc.conn = pre.conn

----------------------------------------------------------------------------
(* One add_metadata task per remote name *)

\* No two add_metadata tasks of the list carry the same remote name
OncePerRemoteName(list) ==
    \A i, j \in 1..Len(list) :
        list[i].conn.remote_name = list[j].conn.remote_name => i = j

\* C35: a planning pass queues no two add_metadata tasks for one remote name,
\* also when two desired columns declare the same remote name, and applying
\* the add_metadata tasks to the document they were planned against never
\* adds a record whose key exists.
C35_OneMetadataTaskPerRemoteName ==
    /\ pc = "planned" => OncePerRemoteName(tasks["add_metadata"])
    /\ last.op = "add_metadata" => err # "DuplicateKeyError"

\* C35 for the configurations whose columns declare pairwise distinct remote
\* names
C35_OneMetadataTaskGivenDistinctRemotes ==
    DistinctRemoteNames(cfg) =>
        /\ pc = "planned" => OncePerRemoteName(tasks["add_metadata"])
        /\ last.op = "add_metadata" => err = ""

----------------------------------------------------------------------------
(* Folders deleted last *)

\* C36: once the tasks a pass planned from the live document were all
\* applied, every desired column that declares a folder has its folder-item
\* in that folder, also when the folder is not among the desired folders.
C36_ColumnsKeepDeclaredFolder ==
    pc \in {"save", "publish"} =>
        \A column \in CfgColumnSet(cfg) :
            column.folder_name # NONE => InDeclaredFolder(doc, column)

\* C36 for the columns whose declared folder is among the desired folders
C36_ColumnsKeepDesiredFolder ==
    pc \in {"save", "publish"} =>
        \A column \in CfgColumnSet(cfg) :
            (/\ column.folder_name # NONE
             /\ ItemIndex(cfg.folders, column.folder_name) # 0)
            => InDeclaredFolder(doc, column)

----------------------------------------------------------------------------
(* Reaching a fixpoint *)

\* C37: for a configuration whose columns have pairwise distinct names and
\* remote names, a pass whose tasks were all applied is never followed by a
\* pass that plans the same tasks again (the passes do not cycle, they get to
\* the empty plan), and a pass that planned nothing is followed by passes
\* that plan nothing.
C37_ReachesFixpoint ==
    DistinctRemoteNames(cfg) =>
        /\ pc = "publish" => PlanTasks(doc, cfg) # tasks
        /\ (pc = "idle" /\ last.op = "skip") => PlanTasks(live, cfg) = EmptyTasks

\* The configuration's columns all declare a folder that is among the desired
\* folders, and none is a calculation with a remote name
FolderedPlainColumns(c) ==
    \A column \in CfgColumnSet(c) :
        /\ column.folder_name # NONE
        /\ ItemIndex(c.folders, column.folder_name) # 0
        /\ column.calculation = NONE \/ column.remote_name = NONE

\* Lines 445-450 in one piece: the tasks of the kinds from the n-th on, applied
\* to the document up to the first task that raises
RECURSIVE ApplyFrom(_, _, _)
ApplyFrom(t, d, n) ==
    IF n > Len(APPLY_ORDER) THEN [d |-> d, err |-> ""]
    ELSE LET r == DoAction(t, d, APPLY_ORDER[n])
         IN  IF r.err # "" THEN [d |-> r.d, err |-> r.err]
             ELSE ApplyFrom(t, r.d, n + 1)

\* C37 for such configurations: a pass whose tasks were all applied does not
\* plan the same tasks again, and after one more pass, which does not fail,
\* the plan is empty
C37_FixpointGivenFolderedPlainColumns ==
    (DistinctRemoteNames(cfg) /\ FolderedPlainColumns(cfg)) =>
        /\ pc = "publish" =>
              LET next == ApplyFrom(PlanTasks(doc, cfg), doc, 1)
              IN  /\ PlanTasks(doc, cfg) # tasks
                  /\ next.err = ""
                  /\ PlanTasks(next.d, cfg) = EmptyTasks
        /\ (pc = "idle" /\ last.op = "skip") => PlanTasks(live, cfg) = EmptyTasks

====
